---- MODULE Spec2Model ----
(***************************************************************************)
(* Model of the data-access layer (supabaseClient.ts) and of the job       *)
(* details page of the job-application platform.  The store (tables        *)
(* jobs, job_applications, user_profiles and the 'resumes' bucket) is      *)
(* shared by browser tabs; every awaited store request of a handler is one *)
(* atomic step, so that handlers of different tabs interleave between      *)
(* their requests exactly as the asynchronous code does.  A store request  *)
(* may be answered with an error (the `error` field of the client's        *)
(* response); each action takes that answer as an input.                   *)
(***************************************************************************)
EXTENDS Integers, FiniteSets, Sequences, TLC

VARIABLES
    session,    \* tab -> signed-in user id or NoUser (supabase.auth.getSession)
    jobs,       \* table jobs: job id -> [status, applications_count, title, updated_at]
    apps,       \* table job_applications: set of rows [id, user_id, job_id]
    nextId,     \* serial of job_applications.id
    profiles,   \* table user_profiles: user id -> [present, resume_url, role]
    blobs,      \* bucket 'resumes': set of object paths [user, ts]
    clock,      \* Date.now()
    pc,         \* tab -> position inside the handler it is running
    loc,        \* tab -> local variables of the running handler
    res,        \* tab -> outcome of the last data-access call that returned
    page,       \* tab -> React state of its JobDetailsPage
    nextJob,    \* serial of jobs.id
    pdfs,       \* table job_pdfs: set of rows [id, job_id, path]
    nextPdf,    \* serial of job_pdfs.id
    docs,       \* bucket 'job-pdfs': set of object paths [job, ts]
    fk,         \* delete rule of the foreign keys on jobs.id
    scores,     \* column job_applications.total_score: row id -> score
    dash        \* tab -> the jobs list its AdminDashboard has loaded

\* tables and bucket of the admin side, the scores and the dashboards
admin == <<nextJob, pdfs, nextPdf, docs, fk, scores, dash>>
vars == <<session, jobs, apps, nextId, profiles, blobs, clock, pc, loc, res,
          page, admin>>
store == <<jobs, apps, nextId, profiles, blobs, clock>>

(***************************************************************************)
(* Bounds of the model.                                                    *)
(***************************************************************************)
MaxRows == 3
MaxClock == 3
MaxPdfs == 2
MaxTime == 5000

Tabs == {"t1", "t2"}
Users == {"u1", "u2"}
NoUser == "none"
JobIds == {1, 2}
NoUrl == [user |-> NoUser, ts |-> 0, kind |-> "none"]
NoPath == [user |-> NoUser, ts |-> 0]

JobStatus == {"processing", "inactive", "active"}
\* no row of table jobs under an id; the row an insert creates
NoJob == [status |-> "absent", applications_count |-> 0, title |-> "none",
          updated_at |-> 0]
NewJob(s) == [status |-> s, applications_count |-> 0, title |-> "title",
              updated_at |-> 0]
\* no File argument, no object of the 'job-pdfs' bucket
NoFile == [type |-> "none", size |-> 0]
NoDoc == [job |-> 0, ts |-> 0]

(***************************************************************************)
(* Store queries.                                                          *)
(***************************************************************************)
\* .from('job_applications').select(...).eq('user_id', u).eq('job_id', j)
RowsOf(u, j) == {r \in apps : r.user_id = u /\ r.job_id = j}

\* .from('job_applications').select('*', {count: 'exact'}).eq('job_id', j)
CountOf(j) == Cardinality({r \in apps : r.job_id = j})

\* the store's answer to the insert of applyToJob: the uniqueness constraint
\* on (user_id, job_id) answers 23505, the foreign key on job_id and any
\* other failure answer another error
InsertAnswer(u, j, fault) ==
    IF fault THEN "other"
    ELSE IF RowsOf(u, j) # {} THEN "23505"
    ELSE IF jobs[j].status = "absent" THEN "other"
    ELSE "none"

getResumeUrl_AnyProfile(u, fault) ==
    IF fault \/ ~profiles[u].present THEN NoUrl
    ELSE [user |-> u, ts |-> 0, kind |-> "signed"]

\* user_profiles.resume_url as getResumeUrl returns it (null -> NoUrl)
getResumeUrl(u, fault) ==
    IF fault \/ ~profiles[u].present THEN NoUrl ELSE profiles[u].resume_url

hasUserApplied_AnyJob(u, j, fault) ==
    IF u = NoUser \/ fault THEN FALSE ELSE \E r \in apps : r.user_id = u

\* hasUserApplied: a failed lookup counts as "not applied"
hasUserApplied(u, j, fault) ==
    IF u = NoUser \/ fault THEN FALSE ELSE RowsOf(u, j) # {}

(***************************************************************************)
(* Locals and results.                                                     *)
(***************************************************************************)
NoLoc == [job |-> 0, user |-> NoUser, err |-> "none", row |-> 0, cnt |-> 0,
          via |-> "api", ret |-> "none", capApplying |-> FALSE,
          sync |-> [j \in JobIds |-> "none"], scnt |-> [j \in JobIds |-> 0],
          list |-> {}, files |-> {}, path |-> NoPath, url |-> NoUrl,
          file |-> NoFile, todo |-> {}, pdf |-> 0, doc |-> NoDoc,
          status |-> "none", start |-> 0, wait |-> 0, slept |-> 0,
          reads |-> 0, last |-> 0, prev |-> NoUrl, fetched |-> FALSE]
NoRes == [op |-> "none", kind |-> "none", row |-> 0, code |-> "none",
          count |-> "none", list |-> {}, status |-> "none"]
\* every application starts with total_score 0 (at: time of the last write
\* of the scoring service)
NoScores == [i \in 1..MaxRows |->
                [total_score |-> 0, at |-> 0, acceptance |-> "pending"]]
\* the dashboard has loaded nothing
NoDash == [open |-> FALSE, list |-> [j \in JobIds |-> "none"]]
NoPage == [job |-> 0, status |-> "none", hasApplied |-> FALSE, applying |-> FALSE]

\* the data-access call of tab c returns (kind "ok") or throws (any other
\* kind); a call made by handleApply continues in its try or catch block
\* code is the code of the store's error, count the boolean that
\* updateJobApplicationCount returned to the call
ReturnWith(c, op, k, code, count) ==
    /\ res' = [res EXCEPT ![c] = [op |-> op, kind |-> k, code |-> code,
                                  count |-> count, status |-> "none",
                                  list |-> IF k = "ok" THEN loc[c].list ELSE {},
                                  row |-> IF k = "ok" THEN loc[c].row ELSE 0]]
    /\ IF loc[c].via = "ui"
       THEN /\ pc' = [pc EXCEPT ![c] = IF k = "ok" THEN "ha_ok" ELSE "ha_catch"]
            /\ UNCHANGED loc
       ELSE IF loc[c].via = "dash" /\ k = "ok"
       THEN /\ pc' = [pc EXCEPT ![c] = "db_load"]
            /\ UNCHANGED loc
       ELSE /\ pc' = [pc EXCEPT ![c] = "idle"]
            /\ loc' = [loc EXCEPT ![c] = NoLoc]

Return(c, op, k) == ReturnWith(c, op, k, "none", "none")

(***************************************************************************)
(* updateJobApplicationCount: count query, then write of the count         *)
(***************************************************************************)
\* the caller goes on after updateJobApplicationCount returned (its boolean
\* result is ignored by applyToJob and updateJobStatus)
CountDone_Throws(c, done) ==
    ReturnWith(c, loc[c].ret, IF done THEN "ok" ELSE "Failed", "none",
               IF done THEN "true" ELSE "false")

CountDone(c, done) ==
    ReturnWith(c, loc[c].ret, "ok", "none", IF done THEN "true" ELSE "false")

updateJobApplicationCount_count(c, fault) ==
    /\ pc[c] = "cnt_read"
    /\ IF fault
       THEN CountDone(c, FALSE)
       ELSE /\ loc' = [loc EXCEPT ![c].cnt = CountOf(loc[c].job)]
            /\ pc' = [pc EXCEPT ![c] = "cnt_write"]
            /\ UNCHANGED res
    /\ UNCHANGED <<session, admin, store, page>>

\* .from('jobs').update({applications_count: count || 0}).eq('id', jobId)
WriteCount_Increment(j, n) ==
    IF jobs[j].status = "absent" THEN jobs
    ELSE [jobs EXCEPT ![j].applications_count = jobs[j].applications_count + 1,
                      ![j].updated_at = clock]

WriteCount(j, n) ==
    IF jobs[j].status = "absent" THEN jobs
    ELSE [jobs EXCEPT ![j].applications_count = n, ![j].updated_at = clock]

updateJobApplicationCount_update(c, fault) ==
    /\ pc[c] = "cnt_write"
    /\ jobs' = IF fault THEN jobs ELSE WriteCount(loc[c].job, loc[c].cnt)
    /\ CountDone(c, ~fault)
    /\ UNCHANGED <<session, admin, apps, nextId, profiles, blobs, clock, page>>

(***************************************************************************)
(* applyToJob                                                              *)
(***************************************************************************)
\* getCurrentUser and the 'must be logged in' check
applyToJob_start(c, j, via) ==
    /\ \/ via = "api" /\ pc[c] = "idle"
       \/ via = "ui" /\ pc[c] = "ha_call" /\ j = page[c].job
    /\ IF session[c] = NoUser
       THEN /\ res' = [res EXCEPT ![c] = [NoRes EXCEPT !.op = "applyToJob",
                                           !.kind = "Unauthenticated"]]
            /\ pc' = [pc EXCEPT ![c] = IF via = "ui" THEN "ha_catch" ELSE "idle"]
            /\ UNCHANGED loc
       ELSE /\ pc' = [pc EXCEPT ![c] = "ap_resume"]
            /\ loc' = [loc EXCEPT ![c] = [NoLoc EXCEPT !.job = j, !.via = via,
                                  !.user = session[c], !.ret = "applyToJob"]]
            /\ res' = [res EXCEPT ![c] = NoRes]
    /\ UNCHANGED <<session, admin, store, page>>

\* getResumeUrl(user.id) and the 'upload your resume' check
applyToJob_resume(c, fault) ==
    /\ pc[c] = "ap_resume"
    /\ IF getResumeUrl(loc[c].user, fault) = NoUrl
       THEN Return(c, "applyToJob", "ResumeMissing")
       ELSE /\ pc' = [pc EXCEPT ![c] = "ap_check"]
            /\ UNCHANGED <<loc, res>>
    /\ UNCHANGED <<session, admin, store, page>>

\* hasUserApplied(jobId) and the 'already applied' check
applyToJob_check(c, fault) ==
    /\ pc[c] = "ap_check"
    /\ IF hasUserApplied(session[c], loc[c].job, fault)
       THEN Return(c, "applyToJob", "AlreadyApplied")
       ELSE /\ pc' = [pc EXCEPT ![c] = "ap_insert"]
            /\ UNCHANGED <<loc, res>>
    /\ UNCHANGED <<session, admin, store, page>>

InsertError_Ignored(code) == "ok"

InsertError_Generic(code) == "Failed"

\* the error thrown for the answer of the insert
InsertError(code) ==
    IF code = "23505" THEN "AlreadyApplied" ELSE "Failed"

\* insert into job_applications; on success go on with the count resync
applyToJob_insert(c, fault) ==
    /\ pc[c] = "ap_insert"
    /\ nextId <= MaxRows
    /\ LET u == loc[c].user
           j == loc[c].job
           code == InsertAnswer(u, j, fault)
       IN IF code = "none"
          THEN /\ apps' = apps \cup {[id |-> nextId, user_id |-> u, job_id |-> j]}
               /\ nextId' = nextId + 1
               /\ loc' = [loc EXCEPT ![c].row = nextId, ![c].err = code]
               /\ pc' = [pc EXCEPT ![c] = "cnt_read"]
               /\ UNCHANGED res
          ELSE /\ ReturnWith(c, "applyToJob", InsertError(code), code, "none")
               /\ UNCHANGED <<apps, nextId>>
    /\ UNCHANGED <<session, admin, jobs, profiles, blobs, clock, page>>

(***************************************************************************)
(* updateJobStatus                                                         *)
(***************************************************************************)
StatusUpdate_KeepsStamp(row, s, now) == [row EXCEPT !.status = s]

\* .update({status: newStatus, updated_at: new Date().toISOString()})
StatusUpdate(row, s, now) == [row EXCEPT !.status = s, !.updated_at = now]

\* the update of the status, then updateJobApplicationCount(jobId)
updateJobStatus_call(c, j, newStatus, via, fault) ==
    /\ pc[c] = "idle"
    /\ IF fault
       THEN /\ res' = [res EXCEPT ![c] = [NoRes EXCEPT !.op = "updateJobStatus",
                                           !.kind = "Failed"]]
            /\ UNCHANGED <<jobs, pc, loc>>
       ELSE /\ jobs' = IF jobs[j].status = "absent" THEN jobs
                       ELSE [jobs EXCEPT ![j] = StatusUpdate(jobs[j], newStatus, clock)]
            /\ loc' = [loc EXCEPT ![c] = [NoLoc EXCEPT !.job = j, !.via = via,
                                  !.ret = "updateJobStatus", !.status = newStatus]]
            /\ pc' = [pc EXCEPT ![c] = "cnt_read"]
            /\ res' = [res EXCEPT ![c] = NoRes]
    /\ UNCHANGED <<session, admin, apps, nextId, profiles, blobs, clock, page>>

updateJobStatus(c, j, newStatus, fault) ==
    updateJobStatus_call(c, j, newStatus, "api", fault)

(***************************************************************************)
(* syncAllJobApplicationCounts: the ids of all jobs, then one              *)
(* updateJobApplicationCount per job, all running at once (Promise.all)    *)
(***************************************************************************)
SyncFinished(c) ==
    \A j \in JobIds : loc[c].sync[j] \in {"none", "done", "failed"}

\* the value syncAllJobApplicationCounts returns: false when the jobs query
\* failed, true after Promise.all (the values of the calls are not read)
syncAllJobApplicationCounts_returns(c) == loc[c].fetched

\* .from('jobs').select('id'); on an error the sync returns false at once
syncAllJobApplicationCounts_jobs(c, fault) ==
    /\ pc[c] = "sync_jobs"
    /\ loc' = [loc EXCEPT ![c].sync =
                  [j \in JobIds |-> IF ~fault /\ jobs[j].status # "absent"
                                    THEN "read" ELSE "none"],
                          ![c].fetched = ~fault]
    /\ pc' = [pc EXCEPT ![c] = "sync_run"]
    /\ UNCHANGED <<session, admin, store, res, page>>

\* the count query of updateJobApplicationCount(j), which returns false on
\* an error ("failed")
syncAllJobApplicationCounts_count(c, j, fault) ==
    /\ pc[c] = "sync_run"
    /\ loc[c].sync[j] = "read"
    /\ loc' = [loc EXCEPT ![c].sync[j] = IF fault THEN "failed" ELSE "write",
                          ![c].scnt[j] = IF fault THEN 0 ELSE CountOf(j)]
    /\ UNCHANGED <<session, admin, store, pc, res, page>>

\* the write of updateJobApplicationCount(j)
syncAllJobApplicationCounts_update(c, j, fault) ==
    /\ pc[c] = "sync_run"
    /\ loc[c].sync[j] = "write"
    /\ jobs' = IF fault THEN jobs ELSE WriteCount(j, loc[c].scnt[j])
    /\ loc' = [loc EXCEPT ![c].sync[j] = IF fault THEN "failed" ELSE "done",
                          ![c].scnt[j] = 0]
    /\ UNCHANGED <<session, admin, apps, nextId, profiles, blobs, clock, pc,
                   res, page>>

(***************************************************************************)
(* getRecommendedJobs                                                      *)
(***************************************************************************)
\* .from('jobs').select('*').eq('status', 'active')
ActiveJobs == {[id |-> j, status |-> jobs[j].status] :
                  j \in {k \in JobIds : jobs[k].status = "active"}}

\* allActiveJobs.filter(job => !appliedJobIds.has(job.id))
NotApplied(list, u) ==
    {job \in list : ~\E r \in apps : r.user_id = u /\ r.job_id = job.id}

getRecommendedJobs_start(c) ==
    /\ pc[c] = "idle"
    /\ loc' = [loc EXCEPT ![c] = [NoLoc EXCEPT !.user = session[c],
                                      !.ret = "getRecommendedJobs"]]
    /\ pc' = [pc EXCEPT ![c] = IF session[c] = NoUser THEN "rec_anon"
                               ELSE "sync_jobs"]
    /\ res' = [res EXCEPT ![c] = NoRes]
    /\ UNCHANGED <<session, admin, store, page>>

\* no user: the active jobs, unfiltered
getRecommendedJobs_anon(c, fault) ==
    /\ pc[c] = "rec_anon"
    /\ IF fault
       THEN /\ Return(c, "getRecommendedJobs", "Failed")
       ELSE /\ res' = [res EXCEPT ![c] = [NoRes EXCEPT !.op = "getRecommendedJobs",
                                              !.kind = "ok", !.list = ActiveJobs]]
            /\ pc' = [pc EXCEPT ![c] = "idle"]
            /\ loc' = [loc EXCEPT ![c] = NoLoc]
    /\ UNCHANGED <<session, admin, store, page>>

\* after the sync: the active jobs
getRecommendedJobs_jobs(c, fault) ==
    /\ pc[c] = "sync_run"
    /\ loc[c].ret = "getRecommendedJobs"
    /\ SyncFinished(c)
    /\ IF fault
       THEN Return(c, "getRecommendedJobs", "Failed")
       ELSE /\ loc' = [loc EXCEPT ![c].list = ActiveJobs]
            /\ pc' = [pc EXCEPT ![c] = "rec_apps"]
            /\ UNCHANGED res
    /\ UNCHANGED <<session, admin, store, page>>

\* the user's applications: on an error all active jobs are returned,
\* otherwise the ones the user has not applied to
getRecommendedJobs_apps(c, fault) ==
    /\ pc[c] = "rec_apps"
    /\ LET out == IF fault THEN loc[c].list
                  ELSE NotApplied(loc[c].list, loc[c].user)
       IN /\ res' = [res EXCEPT ![c] = [NoRes EXCEPT !.op = "getRecommendedJobs",
                                            !.kind = "ok", !.list = out]]
          /\ pc' = [pc EXCEPT ![c] = "idle"]
          /\ loc' = [loc EXCEPT ![c] = NoLoc]
    /\ UNCHANGED <<session, admin, store, page>>

(***************************************************************************)
(* uploadResume / deleteAllUserResumes                                     *)
(***************************************************************************)
ResumeMaxSize == 5242880
AllowedTypes == {"application/pdf", "application/msword",
    "application/vnd.openxmlformats-officedocument.wordprocessingml.document"}
isValidDocumentType(file) == file.type \in AllowedTypes

\* the files offered to uploadResume
Files == [type : {"application/pdf", "image/png"},
          size : {ResumeMaxSize, ResumeMaxSize + 1}]

\* the object a signed or public URL points at
PathOf(url) == [user |-> url.user, ts |-> url.ts]
\* createSignedUrl / getPublicUrl of an object
UrlOf(path, kind) == [user |-> path.user, ts |-> path.ts, kind |-> kind]
\* supabase.storage.from('resumes').list(userId)
FolderOf(u) == {b \in blobs : b.user = u}

\* the resume_url of u's profile when the object it names is in the bucket
UsableResume(u) ==
    IF profiles[u].present /\ PathOf(profiles[u].resume_url) \in blobs
    THEN profiles[u].resume_url ELSE NoUrl

\* validation of uploadResume; prev keeps the resume the user had when the
\* call began (history only, no step of the function reads it)
uploadResume_start(c, file) ==
    /\ pc[c] = "idle"
    /\ LET k == IF session[c] = NoUser THEN "Unauthenticated"
                ELSE IF ~isValidDocumentType(file) THEN "InvalidType"
                ELSE IF file.size > ResumeMaxSize THEN "TooLarge"
                ELSE "ok"
       IN IF k = "ok"
          THEN /\ loc' = [loc EXCEPT ![c] =
                             [NoLoc EXCEPT !.user = session[c],
                                           !.prev = UsableResume(session[c])]]
               /\ pc' = [pc EXCEPT ![c] = "del_list"]
               /\ UNCHANGED res
          ELSE /\ res' = [res EXCEPT ![c] = [NoRes EXCEPT !.op = "uploadResume",
                                                 !.kind = k]]
               /\ UNCHANGED <<pc, loc>>
    /\ UNCHANGED <<session, admin, store, page>>

PurgeNext_Rethrow(step, out, found) ==
    IF out # "ok" THEN "up_failed"
    ELSE IF step = "del_list" THEN (IF found THEN "del_remove" ELSE "del_clear")
    ELSE IF step = "del_remove" THEN "del_clear"
    ELSE "up_upload"

\* where deleteAllUserResumes goes on after a request: an error answer is
\* logged and the next step runs, an exception is caught at the end of the
\* function; uploadResume goes on with the upload in every case
PurgeNext(step, out, found) ==
    IF out = "throw" THEN "up_upload"
    ELSE IF step = "del_list" THEN (IF found THEN "del_remove" ELSE "del_clear")
    ELSE IF step = "del_remove" THEN "del_clear"
    ELSE "up_upload"

\* Step 1: list the user's folder (fileList is null on an error)
deleteAllUserResumes_list(c, out) ==
    /\ pc[c] = "del_list"
    /\ LET fileList == IF out = "ok" THEN FolderOf(loc[c].user) ELSE {}
       IN /\ loc' = [loc EXCEPT ![c].files = fileList]
          /\ pc' = [pc EXCEPT ![c] = PurgeNext("del_list", out, fileList # {})]
    /\ UNCHANGED <<session, admin, store, res, page>>

\* Step 2: bulk remove of the listed files
deleteAllUserResumes_remove(c, out) ==
    /\ pc[c] = "del_remove"
    /\ blobs' = IF out = "ok" THEN blobs \ loc[c].files ELSE blobs
    /\ loc' = [loc EXCEPT ![c].files = {}]
    /\ pc' = [pc EXCEPT ![c] = PurgeNext("del_remove", out, FALSE)]
    /\ UNCHANGED <<session, admin, jobs, apps, nextId, profiles, clock, res,
                   page>>

\* Step 3: user_profiles.resume_url := null
deleteAllUserResumes_clear(c, out) ==
    /\ pc[c] = "del_clear"
    /\ profiles' = IF out = "ok" /\ profiles[loc[c].user].present
                   THEN [profiles EXCEPT ![loc[c].user].resume_url = NoUrl]
                   ELSE profiles
    /\ pc' = [pc EXCEPT ![c] = PurgeNext("del_clear", out, FALSE)]
    /\ UNCHANGED <<session, admin, jobs, apps, nextId, blobs, clock, loc,
                   res, page>>

\* STEP 2 of uploadResume: `${user.id}/resume_${Date.now()}.${ext}` and the
\* upload to the bucket
uploadResume_upload(c, fault) ==
    /\ pc[c] = "up_upload"
    /\ clock <= MaxClock
    /\ clock' = clock + 1
    /\ LET path == [user |-> loc[c].user, ts |-> clock]
       IN IF fault \/ path \in blobs
          THEN /\ Return(c, "uploadResume", "Failed")
               /\ UNCHANGED blobs
          ELSE /\ blobs' = blobs \cup {path}
               /\ loc' = [loc EXCEPT ![c].path = path]
               /\ pc' = [pc EXCEPT ![c] = "up_url"]
               /\ UNCHANGED res
    /\ UNCHANGED <<session, admin, jobs, apps, nextId, profiles, page>>

\* STEP 3: signed URL, public URL when signing fails
uploadResume_url(c, fault) ==
    /\ pc[c] = "up_url"
    /\ loc' = [loc EXCEPT ![c].url =
                  UrlOf(loc[c].path, IF fault THEN "public" ELSE "signed")]
    /\ pc' = [pc EXCEPT ![c] = "up_upsert"]
    /\ UNCHANGED <<session, admin, store, res, page>>

\* STEP 4: upsert of {id, resume_url, role: 'user', ...} on conflict 'id'
uploadResume_upsert(c, fault) ==
    /\ pc[c] = "up_upsert"
    /\ IF fault
       THEN /\ Return(c, "uploadResume", "Failed")
            /\ UNCHANGED profiles
       ELSE /\ profiles' = [profiles EXCEPT ![loc[c].user] =
                   [present |-> TRUE, resume_url |-> loc[c].url, role |-> "user"]]
            /\ Return(c, "uploadResume", "ok")
    /\ UNCHANGED <<session, admin, jobs, apps, nextId, blobs, clock, page>>

(***************************************************************************)
(* getApplicationDetails / JobDetailsPage                                  *)
(***************************************************************************)
\* id of the row that .single() returns, 0 for null: no row gives PGRST116,
\* any other error is caught, both return null
getApplicationDetails(u, j, fault) ==
    IF fault \/ Cardinality(RowsOf(u, j)) # 1 THEN 0
    ELSE (CHOOSE r \in RowsOf(u, j) : TRUE).id

\* the page is mounted for job j: fresh state, fetchJobDetails starts
fetchJobDetails_start(c, j) ==
    /\ pc[c] = "idle"
    /\ page' = [page EXCEPT ![c] = [NoPage EXCEPT !.job = j]]
    /\ pc' = [pc EXCEPT ![c] = "pg_job"]
    /\ res' = [res EXCEPT ![c] = NoRes]
    /\ UNCHANGED <<session, admin, store, loc>>

\* getJobById (.single() throws when the job is absent) and setJob
fetchJobDetails_job(c, fault) ==
    /\ pc[c] = "pg_job"
    /\ LET j == page[c].job
       IN IF fault \/ jobs[j].status = "absent"
          THEN /\ pc' = [pc EXCEPT ![c] = "idle"]
               /\ UNCHANGED page
          ELSE /\ page' = [page EXCEPT ![c].status = jobs[j].status]
               /\ pc' = [pc EXCEPT ![c] =
                            IF session[c] = NoUser THEN "idle" ELSE "pg_details"]
    /\ UNCHANGED <<session, admin, store, loc, res>>

\* getApplicationDetails(currentUser.id, jobId) of the initial load
fetchJobDetails_details(c, fault) ==
    /\ pc[c] = "pg_details"
    /\ page' = [page EXCEPT ![c].hasApplied =
                    getApplicationDetails(session[c], page[c].job, fault) # 0]
    /\ pc' = [pc EXCEPT ![c] = "idle"]
    /\ UNCHANGED <<session, admin, store, loc, res>>

ApplyEnabled_WhileApplying(c) ==
    /\ page[c].job # 0
    /\ session[c] # NoUser
    /\ page[c].status = "active"
    /\ ~page[c].hasApplied

\* the Apply button is rendered for a signed-in user and an active job and
\* is enabled while neither applying nor hasApplied
ApplyEnabled(c) ==
    /\ page[c].job # 0
    /\ session[c] # NoUser
    /\ page[c].status = "active"
    /\ ~page[c].applying
    /\ ~page[c].hasApplied

\* click on Apply: the checks on user and job.status, then setApplying(true)
handleApply_click(c) ==
    /\ pc[c] = "idle"
    /\ ApplyEnabled(c)
    /\ page' = [page EXCEPT ![c].applying = TRUE]
    /\ loc' = [loc EXCEPT ![c] = [NoLoc EXCEPT !.capApplying = page[c].applying]]
    /\ pc' = [pc EXCEPT ![c] = "ha_call"]
    /\ res' = [res EXCEPT ![c] = NoRes]
    /\ UNCHANGED <<session, admin, store>>

\* applyToJob resolved: setHasApplied(true), then the refresh
handleApply_ok(c) ==
    /\ pc[c] = "ha_ok"
    /\ page' = [page EXCEPT ![c].hasApplied = TRUE]
    /\ pc' = [pc EXCEPT ![c] = "ha_refresh"]
    /\ UNCHANGED <<session, admin, store, loc, res>>

\* applyToJob threw: 'already applied' sets hasApplied and refreshes, any
\* other error goes to the finally block
handleApply_catch(c) ==
    /\ pc[c] = "ha_catch"
    /\ IF res[c].kind = "AlreadyApplied"
       THEN /\ page' = [page EXCEPT ![c].hasApplied = TRUE]
            /\ pc' = [pc EXCEPT ![c] = "ha_refresh"]
            /\ UNCHANGED loc
       ELSE /\ page' = [page EXCEPT ![c].applying = FALSE]
            /\ pc' = [pc EXCEPT ![c] = "idle"]
            /\ loc' = [loc EXCEPT ![c] = NoLoc]
    /\ UNCHANGED <<session, admin, store, res>>

\* refreshApplicationDetails, then finally setApplying(false).  The closure
\* reads the value `applying` had in the render that created the handler.
refreshApplicationDetails(c, fault) ==
    /\ pc[c] = "ha_refresh"
    /\ LET found == getApplicationDetails(session[c], page[c].job, fault) # 0
           applied == IF found THEN TRUE
                      ELSE IF ~loc[c].capApplying THEN FALSE
                      ELSE page[c].hasApplied
       IN page' = [page EXCEPT ![c].hasApplied = applied, ![c].applying = FALSE]
    /\ pc' = [pc EXCEPT ![c] = "idle"]
    /\ loc' = [loc EXCEPT ![c] = NoLoc]
    /\ UNCHANGED <<session, admin, store, res>>

(***************************************************************************)
(* JobDetailsPage.handleProcessResume                                      *)
(***************************************************************************)
\* the Process Resume button is rendered next to the Apply button and is
\* enabled once hasApplied, while not applying
ProcessEnabled(c) ==
    /\ page[c].job # 0
    /\ session[c] # NoUser
    /\ page[c].status = "active"
    /\ ~page[c].applying
    /\ page[c].hasApplied

\* what processPDFsWithAPI can end with: the result of the server, or the
\* server is not reached, the request is aborted after two minutes, the
\* answer is not 2xx, or its status is not 'success'
ProcessOutcomes == {"success", "unreachable", "timeout", "non2xx", "failed"}

AppsAfterFailure_RolledBack(c) == apps \ RowsOf(loc[c].user, loc[c].job)

\* job_applications after the catch block of handleProcessResume: it only
\* sets a message, the application stays
AppsAfterFailure(c) == apps

\* the catch and finally blocks of handleProcessResume: a message, then
\* setApplying(false)
ProcessFailed(c, k) ==
    /\ apps' = AppsAfterFailure(c)
    /\ page' = [page EXCEPT ![c].applying = FALSE]
    /\ res' = [res EXCEPT ![c] = [NoRes EXCEPT !.op = "handleProcessResume",
                                      !.kind = k]]
    /\ pc' = [pc EXCEPT ![c] = "idle"]
    /\ loc' = [loc EXCEPT ![c] = NoLoc]

\* click on Process Resume: the checks on user and hasApplied, then
\* setApplying(true)
handleProcessResume_click(c) ==
    /\ pc[c] = "idle"
    /\ ProcessEnabled(c)
    /\ page' = [page EXCEPT ![c].applying = TRUE]
    /\ loc' = [loc EXCEPT ![c] = [NoLoc EXCEPT !.capApplying = page[c].applying,
                          !.job = page[c].job, !.user = session[c],
                          !.ret = "handleProcessResume"]]
    /\ pc' = [pc EXCEPT ![c] = "pr_test"]
    /\ res' = [res EXCEPT ![c] = NoRes]
    /\ UNCHANGED <<session, admin, store>>

\* testParsePDFConnection: a working endpoint or none
handleProcessResume_test(c, reachable) ==
    /\ pc[c] = "pr_test"
    /\ IF reachable
       THEN /\ pc' = [pc EXCEPT ![c] = "pr_process"]
            /\ UNCHANGED <<page, loc, res, apps>>
       ELSE ProcessFailed(c, "unreachable")
    /\ UNCHANGED <<session, admin, jobs, nextId, profiles, blobs, clock>>

\* processPDFsWithAPI answers; after 'success' the handler waits and calls
\* refreshApplicationDetails
handleProcessResume_process(c, out) ==
    /\ pc[c] = "pr_process"
    /\ IF out = "success"
       THEN /\ pc' = [pc EXCEPT ![c] = "ha_refresh"]
            /\ UNCHANGED <<page, loc, res, apps>>
       ELSE ProcessFailed(c, out)
    /\ UNCHANGED <<session, admin, jobs, nextId, profiles, blobs, clock>>

(***************************************************************************)
(* checkIfUserIsAdmin / uploadJobPdf                                       *)
(***************************************************************************)
\* the answer of the server-side predicate is_admin for user u
IsAdminAnswer(u) == profiles[u].present /\ profiles[u].role = "admin"

\* checkIfUserIsAdmin: false without a user and on an error of the rpc
checkIfUserIsAdmin(u, fault) ==
    IF u = NoUser \/ fault THEN FALSE ELSE IsAdminAnswer(u)

JobPdfMaxSize == 10485760

\* the files offered to uploadJobPdf and createNewJobWithPdf
JobFiles == [type : {"application/pdf", "image/png"},
             size : {JobPdfMaxSize, JobPdfMaxSize + 1}]

\* signed or public URL of an object of 'job-pdfs' (job_pdfs.job_pdf_url)
DocUrl(doc, kind) == [job |-> doc.job, ts |-> doc.ts, kind |-> kind]
\* deleteJobPdf: the part of the URL after '/job-pdfs/' up to the '?'
FileNameOf(url) == [job |-> url.job, ts |-> url.ts]

\* uploadJobPdf returns (k = "ok") or throws; inside createNewJobWithPdf the
\* call is in a try block that goes on with Step 3 or with the catch
JobPdfDone(c, k) ==
    IF loc[c].ret = "createNewJobWithPdf"
    THEN /\ pc' = [pc EXCEPT ![c] = IF k = "ok" THEN "cj_status" ELSE "cj_catch"]
         /\ loc' = [loc EXCEPT ![c].err = k]
         /\ UNCHANGED res
    ELSE /\ res' = [res EXCEPT ![c] = [NoRes EXCEPT !.op = "uploadJobPdf",
                                           !.kind = k, !.row = loc[c].job]]
         /\ pc' = [pc EXCEPT ![c] = "idle"]
         /\ loc' = [loc EXCEPT ![c] = NoLoc]

\* uploadJobPdf(file, jobId) called directly: getCurrentUser
uploadJobPdf_start(c, file, j) ==
    /\ pc[c] = "idle"
    /\ IF session[c] = NoUser
       THEN /\ res' = [res EXCEPT ![c] = [NoRes EXCEPT !.op = "uploadJobPdf",
                                  !.kind = "Unauthenticated", !.row = j]]
            /\ UNCHANGED <<pc, loc>>
       ELSE /\ loc' = [loc EXCEPT ![c] = [NoLoc EXCEPT !.job = j, !.file = file,
                                  !.user = session[c], !.ret = "uploadJobPdf"]]
            /\ pc' = [pc EXCEPT ![c] = "ju_admin"]
            /\ res' = [res EXCEPT ![c] = NoRes]
    /\ UNCHANGED <<session, admin, store, page>>

\* the rpc is_admin, then the checks of type and size
uploadJobPdf_admin(c, fault) ==
    /\ pc[c] = "ju_admin"
    /\ LET k == IF ~checkIfUserIsAdmin(session[c], fault) THEN "Forbidden"
                ELSE IF ~isValidDocumentType(loc[c].file) THEN "InvalidType"
                ELSE IF loc[c].file.size > JobPdfMaxSize THEN "TooLarge"
                ELSE "ok"
       IN IF k = "ok"
          THEN /\ pc' = [pc EXCEPT ![c] = "ju_upload"]
               /\ UNCHANGED <<loc, res>>
          ELSE JobPdfDone(c, k)
    /\ UNCHANGED <<session, admin, store, page>>

\* STEP 2: upload to `job_${jobId}/job_document_${Date.now()}_${name}`
uploadJobPdf_upload(c, fault) ==
    /\ pc[c] = "ju_upload"
    /\ clock <= MaxClock
    /\ clock' = clock + 1
    /\ LET doc == [job |-> loc[c].job, ts |-> clock]
       IN IF fault \/ doc \in docs
          THEN /\ JobPdfDone(c, "Failed")
               /\ UNCHANGED docs
          ELSE /\ docs' = docs \cup {doc}
               /\ loc' = [loc EXCEPT ![c].doc = doc]
               /\ pc' = [pc EXCEPT ![c] = "ju_url"]
               /\ UNCHANGED res
    /\ UNCHANGED <<session, jobs, apps, nextId, profiles, blobs, page,
                   nextJob, pdfs, nextPdf, fk, scores, dash>>

\* STEP 3: signed URL, public URL when signing fails
uploadJobPdf_url(c, fault) ==
    /\ pc[c] = "ju_url"
    /\ loc' = [loc EXCEPT ![c].status = IF fault THEN "public" ELSE "signed"]
    /\ pc' = [pc EXCEPT ![c] = "ju_insert"]
    /\ UNCHANGED <<session, admin, store, res, page>>

\* STEP 4: insert into job_pdfs; the foreign key refuses a job that is gone
uploadJobPdf_insert(c, fault) ==
    /\ pc[c] = "ju_insert"
    /\ nextPdf <= MaxPdfs
    /\ IF fault \/ jobs[loc[c].job].status = "absent"
       THEN /\ pc' = [pc EXCEPT ![c] = "ju_cleanup"]
            /\ UNCHANGED <<pdfs, nextPdf, loc, res>>
       ELSE /\ pdfs' = pdfs \cup {[id |-> nextPdf, job_id |-> loc[c].job,
                          job_pdf_url |-> DocUrl(loc[c].doc, loc[c].status)]}
            /\ nextPdf' = nextPdf + 1
            /\ JobPdfDone(c, "ok")
    /\ UNCHANGED <<session, store, page, nextJob, docs, fk, scores, dash>>

\* the insert failed: remove the uploaded object, then throw
uploadJobPdf_cleanup(c, fault) ==
    /\ pc[c] = "ju_cleanup"
    /\ docs' = IF fault THEN docs ELSE docs \ {loc[c].doc}
    /\ JobPdfDone(c, "Failed")
    /\ UNCHANGED <<session, store, page, nextJob, pdfs, nextPdf, fk, scores, dash>>

(***************************************************************************)
(* createNewJobWithPdf                                                     *)
(***************************************************************************)
\* createNewJobWithPdf returns {job: newJob, pdf, success: true}
CreateDone(c, returned) ==
    /\ res' = [res EXCEPT ![c] = [NoRes EXCEPT !.op = "createNewJobWithPdf",
                  !.kind = "ok", !.row = loc[c].job, !.status = returned,
                  !.code = loc[c].err]]
    /\ IF loc[c].via = "dash"
       THEN /\ pc' = [pc EXCEPT ![c] = "hu_fastapi"]
            /\ UNCHANGED loc
       ELSE /\ pc' = [pc EXCEPT ![c] = "idle"]
            /\ loc' = [loc EXCEPT ![c] = NoLoc]

\* createNewJobWithPdf throws
CreateFailed(c) ==
    /\ res' = [res EXCEPT ![c] = [NoRes EXCEPT !.op = "createNewJobWithPdf",
                                      !.kind = "Failed"]]
    /\ pc' = [pc EXCEPT ![c] = "idle"]
    /\ loc' = [loc EXCEPT ![c] = NoLoc]

\* .from('jobs').update({status: 'inactive', ...}).eq('id', j)
SetInactive(j, fault) ==
    IF fault \/ jobs[j].status = "absent" THEN jobs
    ELSE [jobs EXCEPT ![j].status = "inactive", ![j].updated_at = clock]

\* STEP 1: insert of the jobs row with status 'processing'; with a document
\* the call goes on into uploadJobPdf, whose getCurrentUser may throw
createNewJobWithPdf_insert(c, file, via, fault) ==
    /\ pc[c] = "idle"
    /\ IF fault
       THEN /\ CreateFailed(c)
            /\ UNCHANGED <<jobs, nextJob>>
       ELSE /\ nextJob \in JobIds
            /\ jobs' = [jobs EXCEPT ![nextJob] =
                            [NewJob("processing") EXCEPT !.updated_at = clock]]
            /\ nextJob' = nextJob + 1
            /\ loc' = [loc EXCEPT ![c] = [NoLoc EXCEPT !.job = nextJob,
                          !.file = file, !.user = session[c], !.via = via,
                          !.ret = "createNewJobWithPdf",
                          !.err = IF file # NoFile /\ session[c] = NoUser
                                  THEN "Unauthenticated" ELSE "none"]]
            /\ pc' = [pc EXCEPT ![c] = IF file = NoFile THEN "cj_nodoc"
                                       ELSE IF session[c] = NoUser THEN "cj_catch"
                                       ELSE "ju_admin"]
            /\ res' = [res EXCEPT ![c] = NoRes]
    /\ UNCHANGED <<session, apps, nextId, profiles, blobs, clock, page,
                   pdfs, nextPdf, docs, fk, scores, dash>>

\* STEP 3: the document is uploaded, status := 'inactive'; an error is
\* logged and newJob.status stays 'processing'
createNewJobWithPdf_status(c, fault) ==
    /\ pc[c] = "cj_status"
    /\ jobs' = SetInactive(loc[c].job, fault)
    /\ CreateDone(c, IF fault THEN "processing" ELSE "inactive")
    /\ UNCHANGED <<session, admin, apps, nextId, profiles, blobs, clock, page>>

\* catch (documentError): status := 'inactive' with the error as description;
\* the answer of the update is not looked at and newJob is not touched
createNewJobWithPdf_catch(c, fault) ==
    /\ pc[c] = "cj_catch"
    /\ jobs' = SetInactive(loc[c].job, fault)
    /\ CreateDone(c, "processing")
    /\ UNCHANGED <<session, admin, apps, nextId, profiles, blobs, clock, page>>

\* no document: status := 'inactive', answer not looked at, and
\* newJob.status = 'inactive'
createNewJobWithPdf_nodoc(c, fault) ==
    /\ pc[c] = "cj_nodoc"
    /\ jobs' = SetInactive(loc[c].job, fault)
    /\ CreateDone(c, "inactive")
    /\ UNCHANGED <<session, admin, apps, nextId, profiles, blobs, clock, page>>

(***************************************************************************)
(* createNewJob / deleteJobPdf / deleteJobWithPdfs / deleteJob             *)
(***************************************************************************)
\* createNewJob: one insert with status 'inactive'
createNewJob(c, fault) ==
    /\ pc[c] = "idle"
    /\ IF fault
       THEN /\ res' = [res EXCEPT ![c] = [NoRes EXCEPT !.op = "createNewJob",
                                              !.kind = "Failed"]]
            /\ UNCHANGED <<jobs, nextJob>>
       ELSE /\ nextJob \in JobIds
            /\ jobs' = [jobs EXCEPT ![nextJob] =
                            [NewJob("inactive") EXCEPT !.updated_at = clock]]
            /\ nextJob' = nextJob + 1
            /\ res' = [res EXCEPT ![c] = [NoRes EXCEPT !.op = "createNewJob",
                          !.kind = "ok", !.row = nextJob, !.status = "inactive"]]
    /\ UNCHANGED <<session, apps, nextId, profiles, blobs, clock, pc, loc, page,
                   pdfs, nextPdf, docs, fk, scores, dash>>

\* rows that reference job j through a foreign key
PdfsOf(j) == {r \in pdfs : r.job_id = j}
AppsOf(j) == {r \in apps : r.job_id = j}
Referenced(j) == PdfsOf(j) # {} \/ AppsOf(j) # {}

\* the next document of the for loop (getJobPdfs orders by created_at desc)
NextPdf(ids) == CHOOSE i \in ids : \A k \in ids : k <= i

\* a data-access call of the delete family returns or throws; the handlers
\* of the dashboard reload the jobs list after a call that returned
DeleteDone(c, k) ==
    /\ res' = [res EXCEPT ![c] = [NoRes EXCEPT !.op = loc[c].ret, !.kind = k,
                                      !.row = loc[c].job]]
    /\ IF loc[c].via = "dash" /\ k = "ok"
       THEN /\ pc' = [pc EXCEPT ![c] = "db_load"]
            /\ UNCHANGED loc
       ELSE /\ pc' = [pc EXCEPT ![c] = "idle"]
            /\ loc' = [loc EXCEPT ![c] = NoLoc]

\* deleteJobPdf(pdfId) returned: the loop of deleteJobWithPdfs goes on with
\* the next document or with Step 2
PdfDeleted(c) ==
    IF loc[c].ret = "deleteJobWithPdfs"
    THEN /\ UNCHANGED res
         /\ LET rest == loc[c].todo \ {loc[c].pdf}
            IN IF rest = {}
               THEN /\ pc' = [pc EXCEPT ![c] = "dj_apps"]
                    /\ loc' = [loc EXCEPT ![c].todo = {}, ![c].pdf = 0,
                                          ![c].doc = NoDoc]
               ELSE /\ pc' = [pc EXCEPT ![c] =
                                IF session[c] = NoUser THEN "dp_throw" ELSE "dp_admin"]
                    /\ loc' = [loc EXCEPT ![c].todo = rest,
                                          ![c].pdf = NextPdf(rest),
                                          ![c].doc = NoDoc]
    ELSE DeleteDone(c, "ok")

\* deleteJobPdf(pdfId) called directly: getCurrentUser
deleteJobPdf_start(c, id) ==
    /\ pc[c] = "idle"
    /\ IF session[c] = NoUser
       THEN /\ res' = [res EXCEPT ![c] = [NoRes EXCEPT !.op = "deleteJobPdf",
                                              !.kind = "Unauthenticated"]]
            /\ UNCHANGED <<pc, loc>>
       ELSE /\ loc' = [loc EXCEPT ![c] = [NoLoc EXCEPT !.pdf = id,
                                  !.user = session[c], !.ret = "deleteJobPdf"]]
            /\ pc' = [pc EXCEPT ![c] = "dp_admin"]
            /\ res' = [res EXCEPT ![c] = NoRes]
    /\ UNCHANGED <<session, admin, store, page>>

\* getCurrentUser of a deleteJobPdf inside the loop found no user
deleteJobPdf_nouser(c) ==
    /\ pc[c] = "dp_throw"
    /\ DeleteDone(c, "Unauthenticated")
    /\ UNCHANGED <<session, admin, store, page>>

\* the rpc is_admin
deleteJobPdf_admin(c, fault) ==
    /\ pc[c] = "dp_admin"
    /\ IF checkIfUserIsAdmin(session[c], fault)
       THEN /\ pc' = [pc EXCEPT ![c] = "dp_info"]
            /\ UNCHANGED <<loc, res>>
       ELSE DeleteDone(c, "Forbidden")
    /\ UNCHANGED <<session, admin, store, page>>

\* select job_pdf_url of the row (.single() fails when the row is gone) and
\* the file name inside the bucket
deleteJobPdf_info(c, fault) ==
    /\ pc[c] = "dp_info"
    /\ LET rows == {r \in pdfs : r.id = loc[c].pdf}
       IN IF fault \/ rows = {}
          THEN DeleteDone(c, "Failed")
          ELSE /\ loc' = [loc EXCEPT ![c].doc =
                             FileNameOf((CHOOSE r \in rows : TRUE).job_pdf_url)]
               /\ pc' = [pc EXCEPT ![c] = "dp_blob"]
               /\ UNCHANGED res
    /\ UNCHANGED <<session, admin, store, page>>

\* storage remove of the file; its answer is not looked at
deleteJobPdf_blob(c, fault) ==
    /\ pc[c] = "dp_blob"
    /\ docs' = IF fault THEN docs ELSE docs \ {loc[c].doc}
    /\ pc' = [pc EXCEPT ![c] = "dp_row"]
    /\ UNCHANGED <<session, store, loc, res, page,
                   nextJob, pdfs, nextPdf, fk, scores, dash>>

\* delete of the job_pdfs row
deleteJobPdf_row(c, fault) ==
    /\ pc[c] = "dp_row"
    /\ IF fault
       THEN /\ DeleteDone(c, "Failed")
            /\ UNCHANGED pdfs
       ELSE /\ pdfs' = {r \in pdfs : r.id # loc[c].pdf}
            /\ PdfDeleted(c)
    /\ UNCHANGED <<session, store, page, nextJob, nextPdf, docs, fk, scores, dash>>

\* Step 1 of deleteJobWithPdfs: getJobPdfs(jobId); the loop starts with the
\* getCurrentUser of the first deleteJobPdf
deleteJobWithPdfs_list(c, j, via, fault) ==
    /\ pc[c] = "idle"
    /\ via = "dash" => dash[c].open /\ dash[c].list[j] # "none"
    /\ IF fault
       THEN /\ res' = [res EXCEPT ![c] = [NoRes EXCEPT !.op = "deleteJobWithPdfs",
                                              !.kind = "Failed", !.row = j]]
            /\ UNCHANGED <<pc, loc>>
       ELSE /\ LET ids == {r.id : r \in PdfsOf(j)}
               IN /\ loc' = [loc EXCEPT ![c] = [NoLoc EXCEPT !.job = j,
                                !.via = via, !.user = session[c],
                                !.ret = "deleteJobWithPdfs", !.todo = ids,
                                !.pdf = IF ids = {} THEN 0 ELSE NextPdf(ids)]]
                  /\ pc' = [pc EXCEPT ![c] =
                               IF ids = {} THEN "dj_apps"
                               ELSE IF session[c] = NoUser THEN "dp_throw"
                               ELSE "dp_admin"]
            /\ res' = [res EXCEPT ![c] = NoRes]
    /\ UNCHANGED <<session, admin, store, page>>

\* .from('job_applications').delete().eq('job_id', j)
DeleteApplications(j, fault) ==
    IF fault THEN apps ELSE {r \in apps : r.job_id # j}

\* Step 2: delete of the job's applications; its answer is not looked at
\* (err keeps it as history, no step of the function reads it)
deleteJobWithPdfs_apps(c, fault) ==
    /\ pc[c] = "dj_apps"
    /\ apps' = DeleteApplications(loc[c].job, fault)
    /\ loc' = [loc EXCEPT ![c].err = IF fault THEN "AppsDeleteFailed"
                                     ELSE "none"]
    /\ pc' = [pc EXCEPT ![c] = "dj_job"]
    /\ UNCHANGED <<session, admin, jobs, nextId, profiles, blobs, clock,
                   res, page>>

\* the store's answer to the delete of jobs row j: a row that is still
\* referenced is refused under the rule 'restrict' and is deleted with the
\* referencing rows under 'cascade'
JobDeleteAnswer(j, fault) ==
    IF fault THEN "error"
    ELSE IF Referenced(j) /\ fk = "restrict" THEN "23503"
    ELSE "none"

JobDeleteError_Ignored(answer) == "ok"

\* if (error) throw new Error(`Failed to delete job: ...`)
JobDeleteError(answer) == IF answer = "none" THEN "ok" ELSE "Failed"

\* Step 3: delete of the jobs row
deleteJobWithPdfs_job(c, fault) ==
    /\ pc[c] = "dj_job"
    /\ LET j == loc[c].job
           answer == JobDeleteAnswer(j, fault)
       IN /\ IF answer = "none"
             THEN /\ jobs' = [jobs EXCEPT ![j] = NoJob]
                  /\ apps' = apps \ AppsOf(j)
                  /\ pdfs' = pdfs \ PdfsOf(j)
             ELSE UNCHANGED <<jobs, apps, pdfs>>
          /\ DeleteDone(c, JobDeleteError(answer))
    /\ UNCHANGED <<session, nextId, profiles, blobs, clock, page,
                   nextJob, nextPdf, docs, fk, scores, dash>>

\* deleteJob: the delete of the applications, answer not looked at, then
\* the delete of the jobs row as in deleteJobWithPdfs
deleteJob_apps(c, j, fault) ==
    /\ pc[c] = "idle"
    /\ apps' = DeleteApplications(j, fault)
    /\ loc' = [loc EXCEPT ![c] = [NoLoc EXCEPT !.job = j, !.user = session[c],
                                      !.ret = "deleteJob"]]
    /\ pc' = [pc EXCEPT ![c] = "dj_job"]
    /\ res' = [res EXCEPT ![c] = NoRes]
    /\ UNCHANGED <<session, admin, jobs, nextId, profiles, blobs, clock, page>>

\* getJobById: .single() answers an error (PGRST116) when no row has the id
getJobById(j, fault) ==
    IF fault THEN "error"
    ELSE IF jobs[j].status = "absent" THEN "NotFound"
    ELSE "job"

(***************************************************************************)
(* AdminDashboard                                                          *)
(***************************************************************************)
\* initializeAdmin: getCurrentUser and checkIfUserIsAdmin; a caller who is
\* no admin is sent away, an admin gets the dashboard and loadJobs runs
initializeAdmin(c, fault) ==
    /\ pc[c] = "idle"
    /\ IF checkIfUserIsAdmin(session[c], fault)
       THEN /\ dash' = [dash EXCEPT ![c] = [NoDash EXCEPT !.open = TRUE]]
            /\ loc' = [loc EXCEPT ![c] = [NoLoc EXCEPT !.via = "dash"]]
            /\ pc' = [pc EXCEPT ![c] = "db_load"]
       ELSE /\ dash' = [dash EXCEPT ![c] = NoDash]
            /\ UNCHANGED <<loc, pc>>
    /\ res' = [res EXCEPT ![c] = NoRes]
    /\ UNCHANGED <<session, store, page, nextJob, pdfs, nextPdf, docs, fk, scores>>

\* loadJobs: getJobsForAdmin starts with syncAllJobApplicationCounts
loadJobs(c) ==
    /\ pc[c] = "db_load"
    /\ loc' = [loc EXCEPT ![c] = [NoLoc EXCEPT !.via = "dash",
                                      !.ret = "getJobsForAdmin"]]
    /\ pc' = [pc EXCEPT ![c] = "sync_jobs"]
    /\ UNCHANGED <<session, admin, store, res, page>>

\* after the sync: the select of all jobs and setJobs; an error is logged
\* and keeps the old list
getJobsForAdmin_jobs(c, fault) ==
    /\ pc[c] = "sync_run"
    /\ loc[c].ret = "getJobsForAdmin"
    /\ SyncFinished(c)
    /\ dash' = IF fault \/ ~dash[c].open THEN dash
               ELSE [dash EXCEPT ![c].list =
                        [j \in JobIds |-> IF jobs[j].status = "absent" THEN "none"
                                          ELSE jobs[j].status]]
    /\ res' = [res EXCEPT ![c] = [NoRes EXCEPT !.op = "getJobsForAdmin",
                          !.kind = IF fault THEN "Failed" ELSE "ok"]]
    /\ pc' = [pc EXCEPT ![c] = "idle"]
    /\ loc' = [loc EXCEPT ![c] = NoLoc]
    /\ UNCHANGED <<session, store, page,
                   nextJob, pdfs, nextPdf, docs, fk, scores>>

\* the status the toggle of a listed job asks for; the toggle is not
\* rendered for a job listed as 'processing'
ToggleTo_Any(listed) == "active"

ToggleTo(listed) ==
    IF listed = "active" THEN "inactive"
    ELSE IF listed = "inactive" THEN "active"
    ELSE "none"

\* handleStatusChange(job.id, job.status === 'active' ? 'inactive' : 'active')
handleStatusChange(c, j, fault) ==
    /\ dash[c].open
    /\ ToggleTo(dash[c].list[j]) # "none"
    /\ updateJobStatus_call(c, j, ToggleTo(dash[c].list[j]), "dash", fault)

\* handleDeleteJob: deleteJobWithPdfs(jobId), then loadJobs
handleDeleteJob(c, j, fault) == deleteJobWithPdfs_list(c, j, "dash", fault)

\* the files handlePdfFileChange accepts as selectedPdfFile
SelectableFiles == {f \in JobFiles : isValidDocumentType(f) /\ f.size <= JobPdfMaxSize}

\* handleUploadPdf, Step 1: createNewJobWithPdf(tempJobData, selectedPdfFile)
handleUploadPdf(c, file, fault) ==
    /\ dash[c].open
    /\ file \in SelectableFiles
    /\ createNewJobWithPdf_insert(c, file, "dash", fault)

\* Steps 2 and 3: the AI server is reached and processes the job, or not;
\* a failure goes to the catch block, which reloads the list
handleUploadPdf_fastapi(c, ok) ==
    /\ pc[c] = "hu_fastapi"
    /\ pc' = [pc EXCEPT ![c] = IF ok THEN "hu_status" ELSE "db_load"]
    /\ UNCHANGED <<session, admin, store, loc, res, page>>

\* Step 4: status := 'inactive' through a new client, answer not looked at
handleUploadPdf_status(c, fault) ==
    /\ pc[c] = "hu_status"
    /\ jobs' = SetInactive(loc[c].job, fault)
    /\ pc' = [pc EXCEPT ![c] = "db_load"]
    /\ UNCHANGED <<session, admin, apps, nextId, profiles, blobs, clock,
                   loc, res, page>>

(***************************************************************************)
(* getApplicationStatus / waitForScoreProcessing                           *)
(***************************************************************************)
\* id of the row that .single() returns, 0 for null: no row gives PGRST116
\* and null, any other error is thrown and caught and gives null as well
getApplicationStatus(u, j, fault) ==
    IF fault \/ Cardinality(RowsOf(u, j)) # 1 THEN 0
    ELSE (CHOOSE r \in RowsOf(u, j) : TRUE).id

pollInterval == 5000
\* step of the clock and the values of maxWaitTime that are tried
TickMs == 2500
WaitTimes == {0, 3000, 7500}

\* while (Date.now() - startTime < maxWaitTime): the next read is issued,
\* or the loop ends and null is returned
PollLoop(c, now, l) ==
    IF now - l.start < l.wait
    THEN /\ pc' = [pc EXCEPT ![c] = "wp_read"]
         /\ loc' = [loc EXCEPT ![c] = [l EXCEPT !.reads = l.reads + 1,
                                                !.last = now]]
         /\ res' = [res EXCEPT ![c] = NoRes]
    ELSE /\ pc' = [pc EXCEPT ![c] = "idle"]
         /\ loc' = [loc EXCEPT ![c] = NoLoc]
         /\ res' = [res EXCEPT ![c] = [NoRes EXCEPT !.op = "waitForScoreProcessing",
                        !.kind = "null", !.count = l.reads]]

\* waitForScoreProcessing(userId, jobId, maxWaitTime): startTime = Date.now()
waitForScoreProcessing_start(c, j, maxWaitTime) ==
    /\ pc[c] = "idle"
    /\ session[c] # NoUser
    /\ clock < MaxTime
    /\ PollLoop(c, clock, [NoLoc EXCEPT !.user = session[c], !.job = j,
                               !.start = clock, !.wait = maxWaitTime,
                               !.ret = "waitForScoreProcessing"])
    /\ UNCHANGED <<session, admin, store, page>>

\* the time after which the timer of setTimeout(resolve, pollInterval) fires
PollDelay_None(since) == since

PollDelay(since) == since + pollInterval

\* getApplicationStatus answers: a row with total_score > 0 is returned,
\* otherwise the timer is set (also in the catch block)
waitForScoreProcessing_read(c, fault) ==
    /\ pc[c] = "wp_read"
    /\ LET application == getApplicationStatus(loc[c].user, loc[c].job, fault)
       IN IF application > 0 /\ scores[application].total_score > 0
          THEN /\ res' = [res EXCEPT ![c] = [NoRes EXCEPT
                             !.op = "waitForScoreProcessing", !.kind = "ok",
                             !.row = application, !.count = loc[c].reads]]
               /\ pc' = [pc EXCEPT ![c] = "idle"]
               /\ loc' = [loc EXCEPT ![c] = NoLoc]
          ELSE /\ pc' = [pc EXCEPT ![c] = "wp_sleep"]
               /\ loc' = [loc EXCEPT ![c].slept = clock,
                              ![c].row = IF application > 0 THEN application ELSE 0,
                              ![c].err = IF fault THEN "read" ELSE loc[c].err]
               /\ UNCHANGED res
    /\ UNCHANGED <<session, admin, store, page>>

\* the timer fires, not before its delay has passed, and the loop goes on
waitForScoreProcessing_wake(c) ==
    /\ pc[c] = "wp_sleep"
    /\ LET due == PollDelay(loc[c].slept)
           now == IF clock < due THEN due ELSE clock
       IN /\ clock' = now
          /\ PollLoop(c, now, loc[c])
    /\ UNCHANGED <<session, admin, jobs, apps, nextId, profiles, blobs, page>>

\* time passes
Tick ==
    /\ clock < MaxTime
    /\ clock' = clock + TickMs
    /\ UNCHANGED <<session, admin, jobs, apps, nextId, profiles, blobs,
                   pc, loc, res, page>>

\* acceptance of a scored application is decided outside of the client
Reconcile(i, decision) ==
    /\ \E r \in apps : r.id = i
    /\ scores[i].total_score > 0 /\ scores[i].acceptance = "pending"
    /\ scores' = [scores EXCEPT ![i].acceptance = decision]
    /\ UNCHANGED <<session, store, pc, loc, res, page,
                   nextJob, pdfs, nextPdf, docs, fk, dash>>

\* the external scoring service writes a positive total_score into a row
ScoringService(i) ==
    /\ \E r \in apps : r.id = i
    /\ scores[i].total_score = 0
    /\ scores' = [scores EXCEPT ![i].total_score = 1, ![i].at = clock]
    /\ UNCHANGED <<session, store, pc, loc, res, page,
                   nextJob, pdfs, nextPdf, docs, fk, dash>>

(***************************************************************************)
(* Initial states: a store as createNewJob, updateJobStatus and            *)
(* uploadResume leave it, no application yet.                              *)
(***************************************************************************)
Resume0(u) == [user |-> u, ts |-> 0, kind |-> "signed"]
NoProfile == [present |-> FALSE, resume_url |-> NoUrl, role |-> "user"]
InitProfile(u) ==
    { NoProfile,
      [present |-> TRUE, resume_url |-> NoUrl, role |-> "user"],
      [present |-> TRUE, resume_url |-> Resume0(u), role |-> "user"] }

InitCommon ==
    /\ apps = {}
    /\ nextId = 1
    /\ clock = 1
    /\ pc = [c \in Tabs |-> "idle"]
    /\ loc = [c \in Tabs |-> NoLoc]
    /\ res = [c \in Tabs |-> NoRes]
    /\ page = [c \in Tabs |-> NoPage]
    /\ blobs = {PathOf(profiles[u].resume_url) : u \in Users} \ {NoPath}
    /\ nextJob = 1 + Cardinality({j \in JobIds : jobs[j].status # "absent"})
    /\ scores = NoScores
    /\ dash = [c \in Tabs |-> NoDash]

\* no job document yet; the foreign keys refuse the delete of a referenced job
NoDocuments ==
    /\ pdfs = {}
    /\ nextPdf = 1
    /\ docs = {}
    /\ fk = "restrict"

\* two tabs, the first possibly signed out; job 2 does not exist
Init ==
    /\ session \in {s \in [Tabs -> Users \cup {NoUser}] :
                       s["t1"] # "u2" /\ s["t2"] # NoUser}
    /\ jobs \in {[j \in JobIds |-> IF j = 1 THEN NewJob(s) ELSE NoJob] :
                    s \in {"active", "inactive"}}
    /\ profiles \in {p \in [Users -> UNION {InitProfile(u) : u \in Users}] :
                        /\ p["u1"] \in InitProfile("u1")
                        /\ p["u2"] = [NoProfile EXCEPT !.present = TRUE,
                                          !.resume_url = Resume0("u2")]}
    /\ InitCommon
    /\ NoDocuments

(***************************************************************************)
(* Applying to jobs through the data-access layer while job statuses are   *)
(* changed.                                                                *)
(***************************************************************************)
ApiApply == \E c \in Tabs, j \in JobIds : applyToJob_start(c, j, "api")
ApplyResume == \E c \in Tabs, f \in BOOLEAN : applyToJob_resume(c, f)
ApplyCheck == \E c \in Tabs, f \in BOOLEAN : applyToJob_check(c, f)
ApplyInsert == \E c \in Tabs, f \in BOOLEAN : applyToJob_insert(c, f)
CountQuery == \E c \in Tabs, f \in BOOLEAN : updateJobApplicationCount_count(c, f)
CountUpdate == \E c \in Tabs, f \in BOOLEAN : updateJobApplicationCount_update(c, f)
StatusChange == \E c \in Tabs, j \in JobIds, s \in {"active", "inactive"}, f \in BOOLEAN :
                    updateJobStatus(c, j, s, f)

Next ==
    \/ ApiApply \/ ApplyResume \/ ApplyCheck \/ ApplyInsert
    \/ CountQuery \/ CountUpdate \/ StatusChange

Spec == Init /\ [][Next]_vars

(***************************************************************************)
(* Applying from the job details page.                                     *)
(***************************************************************************)
UiApply == \E c \in Tabs, j \in JobIds : applyToJob_start(c, j, "ui")
PageOpen == \E c \in Tabs, j \in JobIds : fetchJobDetails_start(c, j)
PageJob == \E c \in Tabs, f \in BOOLEAN : fetchJobDetails_job(c, f)
PageDetails == \E c \in Tabs, f \in BOOLEAN : fetchJobDetails_details(c, f)
ClickApply == \E c \in Tabs : handleApply_click(c)
ApplyOk == \E c \in Tabs : handleApply_ok(c)
ApplyCatch == \E c \in Tabs : handleApply_catch(c)
Refresh == \E c \in Tabs, f \in BOOLEAN : refreshApplicationDetails(c, f)

InitPage ==
    /\ session \in {s \in [Tabs -> Users] : s["t1"] = "u1"}
    /\ jobs = [j \in JobIds |-> IF j = 1 THEN NewJob("active") ELSE NoJob]
    /\ profiles = [u \in Users |-> [NoProfile EXCEPT !.present = TRUE,
                                        !.resume_url = Resume0(u)]]
    /\ InitCommon
    /\ NoDocuments

NextPage ==
    \/ UiApply \/ ApplyResume \/ ApplyCheck \/ ApplyInsert
    \/ CountQuery \/ CountUpdate \/ StatusChange
    \/ PageOpen \/ PageJob \/ PageDetails
    \/ ClickApply \/ ApplyOk \/ ApplyCatch \/ Refresh

SpecPage == InitPage /\ [][NextPage]_vars

(***************************************************************************)
(* The job list of a student while applications and status changes go on.  *)
(***************************************************************************)
Recommend == \E c \in Tabs : getRecommendedJobs_start(c)
RecommendAnon == \E c \in Tabs, f \in BOOLEAN : getRecommendedJobs_anon(c, f)
SyncJobs == \E c \in Tabs, f \in BOOLEAN : syncAllJobApplicationCounts_jobs(c, f)
SyncCount == \E c \in Tabs, j \in JobIds, f \in BOOLEAN :
                 syncAllJobApplicationCounts_count(c, j, f)
SyncUpdate == \E c \in Tabs, j \in JobIds, f \in BOOLEAN :
                  syncAllJobApplicationCounts_update(c, j, f)
RecommendJobs == \E c \in Tabs, f \in BOOLEAN : getRecommendedJobs_jobs(c, f)
RecommendApps == \E c \in Tabs, f \in BOOLEAN : getRecommendedJobs_apps(c, f)

\* both jobs exist; the second tab is signed in as a user with a resume
InitRecommend ==
    /\ session \in {s \in [Tabs -> Users \cup {NoUser}] :
                       s["t1"] # "u2" /\ s["t2"] = "u1"}
    /\ jobs \in [JobIds -> {NewJob("active"), NewJob("inactive")}]
    /\ profiles = [u \in Users |-> [NoProfile EXCEPT !.present = TRUE,
                                        !.resume_url = Resume0(u)]]
    /\ InitCommon
    /\ NoDocuments

NextRecommend ==
    \/ ApiApply \/ ApplyResume \/ ApplyCheck \/ ApplyInsert
    \/ CountQuery \/ CountUpdate \/ StatusChange
    \/ Recommend \/ RecommendAnon \/ SyncJobs \/ SyncCount \/ SyncUpdate
    \/ RecommendJobs \/ RecommendApps

SpecRecommend == InitRecommend /\ [][NextRecommend]_vars

(***************************************************************************)
(* Uploading resumes.                                                      *)
(***************************************************************************)
UploadResume == \E c \in Tabs, file \in Files : uploadResume_start(c, file)
PurgeList == \E c \in Tabs, out \in {"ok", "error", "throw"} :
                 deleteAllUserResumes_list(c, out)
PurgeRemove == \E c \in Tabs, out \in {"ok", "error", "throw"} :
                   deleteAllUserResumes_remove(c, out)
PurgeClear == \E c \in Tabs, out \in {"ok", "error", "throw"} :
                  deleteAllUserResumes_clear(c, out)
Upload == \E c \in Tabs, f \in BOOLEAN : uploadResume_upload(c, f)
SignUrl == \E c \in Tabs, f \in BOOLEAN : uploadResume_url(c, f)
Upsert == \E c \in Tabs, f \in BOOLEAN : uploadResume_upsert(c, f)

\* a user who has no profile yet, in two tabs of which one may be signed out
InitResume ==
    /\ session \in {s \in [Tabs -> Users \cup {NoUser}] :
                       s["t1"] = "u1" /\ s["t2"] # "u2"}
    /\ jobs = [j \in JobIds |-> IF j = 1 THEN NewJob("active") ELSE NoJob]
    /\ profiles = [u \in Users |-> NoProfile]
    /\ InitCommon
    /\ NoDocuments

NextResume ==
    \/ UploadResume \/ PurgeList \/ PurgeRemove \/ PurgeClear
    \/ Upload \/ SignUrl \/ Upsert

SpecResume == InitResume /\ [][NextResume]_vars

(***************************************************************************)
(* The admin creating, toggling and deleting jobs, on dashboards and        *)
(* through the data-access layer.                                          *)
(***************************************************************************)
CreateJobWithPdf == \E c \in Tabs, file \in JobFiles \cup {NoFile}, f \in BOOLEAN :
                        createNewJobWithPdf_insert(c, file, "api", f)
JobPdfAdmin == \E c \in Tabs, f \in BOOLEAN : uploadJobPdf_admin(c, f)
JobPdfUpload == \E c \in Tabs, f \in BOOLEAN : uploadJobPdf_upload(c, f)
JobPdfUrl == \E c \in Tabs, f \in BOOLEAN : uploadJobPdf_url(c, f)
JobPdfInsert == \E c \in Tabs, f \in BOOLEAN : uploadJobPdf_insert(c, f)
JobPdfCleanup == \E c \in Tabs, f \in BOOLEAN : uploadJobPdf_cleanup(c, f)
CreateStatus == \E c \in Tabs, f \in BOOLEAN : createNewJobWithPdf_status(c, f)
CreateCatch == \E c \in Tabs, f \in BOOLEAN : createNewJobWithPdf_catch(c, f)
CreateNoDoc == \E c \in Tabs, f \in BOOLEAN : createNewJobWithPdf_nodoc(c, f)
DashOpen == \E c \in Tabs, f \in BOOLEAN : initializeAdmin(c, f)
DashLoad == \E c \in Tabs : loadJobs(c)
DashJobs == \E c \in Tabs, f \in BOOLEAN : getJobsForAdmin_jobs(c, f)
DashToggle == \E c \in Tabs, j \in JobIds, f \in BOOLEAN : handleStatusChange(c, j, f)
DashUpload == \E c \in Tabs, file \in JobFiles, f \in BOOLEAN :
                  handleUploadPdf(c, file, f)
DashFastApi == \E c \in Tabs, ok \in BOOLEAN : handleUploadPdf_fastapi(c, ok)
DashFinalStatus == \E c \in Tabs, f \in BOOLEAN : handleUploadPdf_status(c, f)
DashDelete == \E c \in Tabs, j \in JobIds, f \in BOOLEAN : handleDeleteJob(c, j, f)
PdfNoUser == \E c \in Tabs : deleteJobPdf_nouser(c)
PdfAdmin == \E c \in Tabs, f \in BOOLEAN : deleteJobPdf_admin(c, f)
PdfInfo == \E c \in Tabs, f \in BOOLEAN : deleteJobPdf_info(c, f)
PdfBlob == \E c \in Tabs, f \in BOOLEAN : deleteJobPdf_blob(c, f)
PdfRow == \E c \in Tabs, f \in BOOLEAN : deleteJobPdf_row(c, f)
DeleteApps == \E c \in Tabs, f \in BOOLEAN : deleteJobWithPdfs_apps(c, f)
DeleteJobRow == \E c \in Tabs, f \in BOOLEAN : deleteJobWithPdfs_job(c, f)

DeleteWithPdfs == \E c \in Tabs, j \in JobIds, f \in BOOLEAN :
                      deleteJobWithPdfs_list(c, j, "api", f)
DeleteJob == \E c \in Tabs, j \in JobIds, f \in BOOLEAN : deleteJob_apps(c, j, f)
CreateJob == \E c \in Tabs, f \in BOOLEAN : createNewJob(c, f)

AdminProfile == [present |-> TRUE, resume_url |-> NoUrl, role |-> "admin"]
StudentProfile(u) == [present |-> TRUE, resume_url |-> Resume0(u), role |-> "user"]

\* profiles that exist already: the admin u1 in the first tab; the student
\* u2, who has a resume, or nobody in the second
InitReupload ==
    /\ session \in {s \in [Tabs -> Users \cup {NoUser}] :
                       s["t1"] = "u1" /\ s["t2"] # "u1"}
    /\ jobs = [j \in JobIds |-> IF j = 1 THEN NewJob("active") ELSE NoJob]
    /\ profiles = [u \in Users |-> IF u = "u1" THEN AdminProfile
                                   ELSE StudentProfile(u)]
    /\ InitCommon
    /\ NoDocuments

SpecReupload == InitReupload /\ [][NextResume]_vars

\* the admin u1 in the first tab; the admin, the student u2 or nobody in
\* the second; no job yet
InitCreate ==
    /\ session \in {s \in [Tabs -> Users \cup {NoUser}] : s["t1"] = "u1"}
    /\ jobs = [j \in JobIds |-> NoJob]
    /\ profiles = [u \in Users |-> IF u = "u1" THEN AdminProfile
                                   ELSE StudentProfile(u)]
    /\ InitCommon
    /\ NoDocuments

\* a job document of a type that is not allowed or above 10 MB
InvalidJobFile(file) ==
    file # NoFile /\ (~isValidDocumentType(file) \/ file.size > JobPdfMaxSize)

\* uploadJobPdf and uploadResume called with a file of a wrong type or above
\* the size cap
JobPdfStart == \E c \in Tabs, file \in {f \in JobFiles : InvalidJobFile(f)},
                  j \in JobIds : uploadJobPdf_start(c, file, j)
RejectedFiles == {f \in Files : ~isValidDocumentType(f) \/ f.size > ResumeMaxSize}
ResumeRejected == \E c \in Tabs, file \in RejectedFiles : uploadResume_start(c, file)

NextCreate ==
    \/ CreateJobWithPdf \/ JobPdfAdmin \/ JobPdfUpload \/ JobPdfUrl
    \/ JobPdfInsert \/ JobPdfCleanup
    \/ CreateStatus \/ CreateCatch \/ CreateNoDoc \/ CreateJob
    \/ JobPdfStart \/ ResumeRejected

SpecCreate == InitCreate /\ [][NextCreate]_vars

\* documents and applications a job may have when its deletion starts
Doc0(j, n) == [job |-> j, ts |-> 0 - n]
PdfRow0(j, n) == [id |-> n, job_id |-> j, job_pdf_url |-> DocUrl(Doc0(j, n), "signed")]

\* job 1 is active and has up to two documents; the student u2 has applied
\* to it or not; the admin u1 in the first tab, the student or nobody in
\* the second
InitDelete ==
    /\ session \in {s \in [Tabs -> {"u1", "u2", NoUser}] :
                        s["t1"] = "u1" /\ s["t2"] # "u1"}
    /\ jobs = [j \in JobIds |-> IF j = 1 THEN NewJob("active") ELSE NoJob]
    /\ profiles = [u \in Users |-> IF u = "u1" THEN AdminProfile
                                   ELSE StudentProfile(u)]
    /\ \E n \in 0..1 :
          /\ apps = {[id |-> i, user_id |-> "u2", job_id |-> 1] : i \in 1..n}
          /\ nextId = n + 1
    /\ \E n \in 0..MaxPdfs :
          /\ pdfs = {PdfRow0(1, i) : i \in 1..n}
          /\ docs = {Doc0(1, i) : i \in 1..n}
          /\ nextPdf = n + 1
    /\ fk \in {"restrict", "cascade"}
    /\ clock = 1
    /\ pc = [c \in Tabs |-> "idle"]
    /\ loc = [c \in Tabs |-> NoLoc]
    /\ res = [c \in Tabs |-> NoRes]
    /\ page = [c \in Tabs |-> NoPage]
    /\ blobs = {PathOf(Resume0("u2"))}
    /\ nextJob = 2
    /\ scores = NoScores
    /\ dash = [c \in Tabs |-> NoDash]

NextDelete ==
    \/ DeleteWithPdfs \/ PdfNoUser \/ PdfAdmin \/ PdfInfo \/ PdfBlob \/ PdfRow
    \/ DeleteApps \/ DeleteJobRow \/ DeleteJob
    \/ ApiApply \/ ApplyResume \/ ApplyCheck \/ ApplyInsert
    \/ CountQuery \/ CountUpdate

SpecDelete == InitDelete /\ [][NextDelete]_vars

\* two dashboards of the admin; job 1 was created and deleted before, job 2
\* is not yet created
InitDash ==
    /\ session = [c \in Tabs |-> "u1"]
    /\ jobs = [j \in JobIds |-> NoJob]
    /\ nextJob = 2
    /\ profiles = [u \in Users |-> IF u = "u1" THEN AdminProfile
                                   ELSE StudentProfile(u)]
    /\ apps = {}
    /\ nextId = 1
    /\ clock = 1
    /\ pc = [c \in Tabs |-> "idle"]
    /\ loc = [c \in Tabs |-> NoLoc]
    /\ res = [c \in Tabs |-> NoRes]
    /\ page = [c \in Tabs |-> NoPage]
    /\ blobs = {PathOf(Resume0("u2"))}
    /\ scores = NoScores
    /\ dash = [c \in Tabs |-> NoDash]
    /\ NoDocuments

NextDash ==
    \/ DashOpen \/ DashLoad \/ SyncJobs \/ SyncCount \/ SyncUpdate \/ DashJobs
    \/ DashToggle \/ CountQuery \/ CountUpdate
    \/ DashUpload \/ JobPdfAdmin \/ JobPdfUpload \/ JobPdfUrl
    \/ JobPdfInsert \/ JobPdfCleanup \/ CreateStatus \/ CreateCatch
    \/ DashFastApi \/ DashFinalStatus
    \/ DashDelete \/ PdfAdmin \/ PdfInfo \/ PdfBlob \/ PdfRow
    \/ DeleteApps \/ DeleteJobRow

SpecDash == InitDash /\ [][NextDash]_vars

(***************************************************************************)
(* A student applies, the scoring service scores, pages and poll loops     *)
(* read the application while time passes.                                 *)
(***************************************************************************)
PollStart == \E c \in Tabs, w \in WaitTimes : waitForScoreProcessing_start(c, 1, w)
PollRead == \E c \in Tabs, f \in BOOLEAN : waitForScoreProcessing_read(c, f)
PollWake == \E c \in Tabs : waitForScoreProcessing_wake(c)
Score == \E i \in 1..MaxRows : ScoringService(i)

\* the student u2 in both tabs; job 1 is active
InitPoll ==
    /\ session = [c \in Tabs |-> "u2"]
    /\ jobs = [j \in JobIds |-> IF j = 1 THEN NewJob("active") ELSE NoJob]
    /\ profiles = [u \in Users |-> StudentProfile(u)]
    /\ \E n \in 0..1 :
          /\ apps = {[id |-> i, user_id |-> "u2", job_id |-> 1] : i \in 1..n}
          /\ nextId = n + 1
    /\ clock = 0
    /\ pc = [c \in Tabs |-> "idle"]
    /\ loc = [c \in Tabs |-> NoLoc]
    /\ res = [c \in Tabs |-> NoRes]
    /\ page = [c \in Tabs |-> NoPage]
    /\ blobs = {PathOf(Resume0(u)) : u \in Users}
    /\ nextJob = 2
    /\ scores = NoScores
    /\ dash = [c \in Tabs |-> NoDash]
    /\ NoDocuments

\* the poll loops alone
NextLoop == PollStart \/ PollRead \/ PollWake \/ Tick \/ Score

\* the store answers every read and every timer fires
SpecLoop ==
    /\ InitPoll
    /\ [][NextLoop]_vars
    /\ \A c \in Tabs : /\ WF_vars(\E f \in BOOLEAN : waitForScoreProcessing_read(c, f))
                       /\ WF_vars(waitForScoreProcessing_wake(c))

ProcessClick == \E c \in Tabs : handleProcessResume_click(c)
ProcessTest == \E c \in Tabs, ok \in BOOLEAN : handleProcessResume_test(c, ok)
ProcessAnswer == \E c \in Tabs, out \in ProcessOutcomes :
                     handleProcessResume_process(c, out)
Decide == \E i \in 1..MaxRows, d \in {"accepted", "rejected"} : Reconcile(i, d)

\* poll loops, pages reading the same application and the processing of
\* the resume
NextPoll ==
    \/ PollStart \/ PollRead \/ PollWake \/ Tick \/ Score \/ Decide
    \/ PageOpen \/ PageJob \/ PageDetails
    \/ ProcessClick \/ ProcessTest \/ ProcessAnswer \/ Refresh

SpecPoll == InitPoll /\ [][NextPoll]_vars

(***************************************************************************)
(* Two job details pages: students apply and have their resumes processed. *)
(***************************************************************************)
NextFlow ==
    \/ PageOpen \/ PageJob \/ PageDetails
    \/ ClickApply \/ UiApply \/ ApplyResume \/ ApplyCheck \/ ApplyInsert
    \/ CountQuery \/ CountUpdate \/ ApplyOk \/ ApplyCatch \/ Refresh
    \/ ProcessClick \/ ProcessTest \/ ProcessAnswer

SpecFlow == InitPage /\ [][NextFlow]_vars

(***************************************************************************)
(* The status of one job is written again and again while time passes.     *)
(***************************************************************************)
InitStatus ==
    /\ session = [c \in Tabs |-> "u1"]
    /\ jobs \in {[j \in JobIds |-> IF j = 1 THEN NewJob(s) ELSE NoJob] :
                    s \in {"active", "inactive"}}
    /\ profiles = [u \in Users |-> IF u = "u1" THEN AdminProfile
                                   ELSE StudentProfile(u)]
    /\ \E n \in 0..1 :
          /\ apps = {[id |-> i, user_id |-> "u2", job_id |-> 1] : i \in 1..n}
          /\ nextId = n + 1
    /\ clock = 0
    /\ pc = [c \in Tabs |-> "idle"]
    /\ loc = [c \in Tabs |-> NoLoc]
    /\ res = [c \in Tabs |-> NoRes]
    /\ page = [c \in Tabs |-> NoPage]
    /\ blobs = {PathOf(Resume0("u2"))}
    /\ nextJob = 2
    /\ scores = NoScores
    /\ dash = [c \in Tabs |-> NoDash]
    /\ NoDocuments

NextStatus == StatusChange \/ CountQuery \/ CountUpdate \/ Tick

SpecStatus == InitStatus /\ [][NextStatus]_vars

TypeOK ==
    /\ session \in [Tabs -> Users \cup {NoUser}]
    /\ \A j \in JobIds : jobs[j].status \in JobStatus \cup {"absent"}
    /\ \A r \in apps : r.user_id \in Users /\ r.job_id \in JobIds

(***************************************************************************)
(* Properties of applyToJob                                                *)
(***************************************************************************)
\* tab c is inside applyToJob and has not inserted yet
BeforeInsert(c) == pc[c] \in {"ap_resume", "ap_check", "ap_insert"}
\* tab c is inside the count resync that follows its own insert
AfterInsert(c) == pc[c] \in {"cnt_read", "cnt_write"} /\ loc[c].ret = "applyToJob"
\* the step ends the applyToJob call of tab c
EndsApply(c) ==
    /\ BeforeInsert(c) \/ AfterInsert(c)
    /\ pc'[c] \in {"idle", "ha_ok", "ha_catch"}
HasResume(u) == profiles[u].present /\ profiles[u].resume_url # NoUrl

AtMostOneApplication ==
    \A u \in Users, j \in JobIds : Cardinality(RowsOf(u, j)) <= 1

\* the successful insert of applyToJob(U,J) creates exactly one row of (U,J)
FirstApplyCreatesOne ==
    \A c \in Tabs :
        pc[c] = "ap_insert" /\ pc'[c] = "cnt_read" =>
            /\ Cardinality(apps') = Cardinality(apps) + 1
            /\ Cardinality({r \in apps' : /\ r.user_id = loc[c].user
                                           /\ r.job_id = loc[c].job}) = 1

\* a call of applyToJob(U,J) that ends while a row of (U,J) exists fails
\* with 'already applied' and leaves job_applications as it is
LaterApplyIsDuplicate ==
    \A c \in Tabs :
        BeforeInsert(c) /\ EndsApply(c) /\ RowsOf(loc[c].user, loc[c].job) # {} =>
            res'[c].kind = "AlreadyApplied" /\ apps' = apps

\* C1 as stated: at most one row per (U,J); the first successful call
\* creates exactly one row; every later applyToJob(U,J) fails with the
\* 'already applied' error and creates no row.
C1_AsStated ==
    /\ []AtMostOneApplication
    /\ [][FirstApplyCreatesOne /\ LaterApplyIsDuplicate]_vars

\* a later call fails and creates no row; its error is 'already applied'
\* unless the profile read gave no resume (resume-missing) or the insert,
\* reached after a failed duplicate lookup, got an error other than 23505
LaterApplyFails ==
    \A c \in Tabs :
        BeforeInsert(c) /\ EndsApply(c) /\ RowsOf(loc[c].user, loc[c].job) # {} =>
            /\ apps' = apps
            /\ pc[c] = "ap_resume" => res'[c].kind = "ResumeMissing"
            /\ pc[c] = "ap_check" => res'[c].kind = "AlreadyApplied"
            /\ pc[c] = "ap_insert" =>
                  \/ res'[c].kind = "AlreadyApplied" /\ res'[c].code = "23505"
                  \/ res'[c].kind = "Failed" /\ res'[c].code = "other"

\* C1 (amended): for every user U and job J at most one job_applications
\* row exists; the first successful applyToJob(U,J) creates exactly one
\* row; every later applyToJob(U,J) fails and creates no further row, with
\* the 'already applied' error unless the profile read yields no resume
\* (resume-missing error) or, after a failed duplicate lookup, the insert is
\* answered with an error other than 23505 (generic failure).
C1_Amended ==
    /\ []AtMostOneApplication
    /\ [][FirstApplyCreatesOne /\ LaterApplyFails]_vars

\* a second call of a user who holds a row has ended with 'already applied'
C1_Witness ==
    \E c \in Tabs :
        /\ pc[c] = "idle" /\ res[c].op = "applyToJob"
        /\ res[c].kind = "AlreadyApplied"
        /\ session[c] # NoUser
        /\ \E j \in JobIds : RowsOf(session[c], j) # {}

\* C3: applyToJob of an authenticated caller whose user_profiles.resume_url
\* is null, or whose profile row is absent, fails with the resume-missing
\* error whatever the job's status is, and inserts no row.
C3_ResumeMissing ==
    [][\A c \in Tabs :
          pc[c] = "ap_resume" /\ pc'[c] # pc[c] /\ ~HasResume(loc[c].user) =>
              /\ EndsApply(c)
              /\ res'[c].kind = "ResumeMissing"
              /\ apps' = apps /\ jobs' = jobs]_vars

\* an authenticated caller without resume was refused on an active job
C3_Witness ==
    \E c \in Tabs :
        /\ pc[c] = "idle" /\ res[c].kind = "ResumeMissing"
        /\ session[c] # NoUser /\ ~HasResume(session[c])
        /\ jobs[1].status = "active" /\ apps = {}

\* C4: applyToJob(J) inserts no job_applications row and fails when the
\* status of J in the store is not 'active'.
C4_InactiveJobRefused ==
    [][\A c \in Tabs :
          pc[c] = "ap_insert" /\ pc'[c] # pc[c]
          /\ jobs[loc[c].job].status # "active" =>
              apps' = apps /\ EndsApply(c) /\ res'[c].kind # "ok"]_vars

\* the error applyToJob owes to the first violated precondition, read from
\* the store: resume present, then not already applied
FirstViolated(c) ==
    IF ~HasResume(loc[c].user) THEN "ResumeMissing"
    ELSE IF RowsOf(loc[c].user, loc[c].job) # {} THEN "AlreadyApplied"
    ELSE "none"

FailingCallKeepsStore ==
    \A c \in Tabs :
        EndsApply(c) /\ res'[c].kind # "ok" => apps' = apps /\ jobs' = jobs

UnauthenticatedFirst ==
    \A c \in Tabs :
        /\ pc[c] = "idle" /\ res'[c] # res[c] /\ res'[c].op = "applyToJob" =>
              /\ session[c] = NoUser /\ res'[c].kind = "Unauthenticated"
              /\ apps' = apps /\ jobs' = jobs
        /\ BeforeInsert(c) => session[c] # NoUser

\* C5 as stated: the error of a failing call is the one of the first
\* violated precondition, and a failing call leaves the store unchanged.
C5_AsStated ==
    [][/\ UnauthenticatedFirst
       /\ FailingCallKeepsStore
       /\ \A c \in Tabs :
             BeforeInsert(c) /\ EndsApply(c) /\ FirstViolated(c) # "none" =>
                 res'[c].kind = FirstViolated(c)]_vars

\* the checks in the order of the code, each with what its request returned
ChecksInOrder ==
    \A c \in Tabs :
        /\ pc[c] \in {"ap_check", "ap_insert"} => HasResume(loc[c].user)
        /\ BeforeInsert(c) /\ EndsApply(c) =>
              /\ pc[c] = "ap_resume" => res'[c].kind = "ResumeMissing"
              /\ pc[c] = "ap_check" =>
                    /\ res'[c].kind = "AlreadyApplied"
                    /\ RowsOf(loc[c].user, loc[c].job) # {}
              /\ pc[c] = "ap_insert" =>
                    \/ /\ res'[c].kind = "AlreadyApplied"
                       /\ RowsOf(loc[c].user, loc[c].job) # {}
                    \/ res'[c].kind = "Failed" /\ res'[c].code = "other"
              /\ ~HasResume(loc[c].user) => pc[c] = "ap_resume"

\* C5 (amended): applyToJob checks authenticated, resume present, not
\* already applied in this order and fails with the error of the first
\* check that fails, where a failed profile read counts as a missing resume
\* and a failed duplicate lookup as not applied (the insert then fails with
\* 'already applied' on 23505 and with a generic failure on another
\* error); on every failing call the store is unchanged.
C5_Amended ==
    [][UnauthenticatedFirst /\ FailingCallKeepsStore /\ ChecksInOrder]_vars

\* a call of a user with resume and row was refused by the duplicate check
C5_Witness ==
    \E c \in Tabs :
        /\ pc[c] = "idle" /\ res[c].kind = "AlreadyApplied" /\ res[c].code = "none"
        /\ \E d \in Tabs : res[d].kind = "Unauthenticated"

(***************************************************************************)
(* Properties of the applications_count resync                             *)
(***************************************************************************)
\* C6 as stated: in every reachable state applications_count of every job
\* equals the number of job_applications rows of the job.
C6_AsStated ==
    \A j \in JobIds :
        jobs[j].status # "absent" => jobs[j].applications_count = CountOf(j)

\* applications_count changes only in the write of a resync, to the count
\* that the resync's query returned
CountOnlyResynced ==
    /\ \A j \in JobIds :
          /\ jobs[j].status # "absent" /\ jobs'[j].status # "absent"
          /\ jobs'[j].applications_count # jobs[j].applications_count
          => \E c \in Tabs :
                /\ pc[c] = "cnt_write" /\ loc[c].job = j /\ pc'[c] # pc[c]
                /\ jobs'[j].applications_count = loc[c].cnt
    /\ \A c \in Tabs :
          pc[c] = "cnt_read" /\ pc'[c] = "cnt_write" =>
              loc'[c].cnt = CountOf(loc[c].job)

\* a resync that reports success leaves the count equal to the number of
\* rows if no row of the job came or went since its count query
ResyncRestores ==
    \A c \in Tabs :
        /\ pc[c] = "cnt_write" /\ pc'[c] # pc[c] /\ res'[c].count = "true"
        /\ jobs[loc[c].job].status # "absent"
        /\ loc[c].cnt = CountOf(loc[c].job)
        => jobs'[loc[c].job].applications_count =
               Cardinality({r \in apps' : r.job_id = loc[c].job})

\* C6 (amended): applications_count of a job is re-synced lazily: it
\* changes only when updateJobApplicationCount writes the count that its
\* query returned, and it equals the number of job_applications rows of
\* the job right after a successful resync during which no row of the job
\* was inserted or deleted.
C6_Amended == [][CountOnlyResynced /\ ResyncRestores]_vars

\* a resync has brought the count of job 1 up to its rows
C6_Witness ==
    /\ CountOf(1) > 0 /\ jobs[1].applications_count = CountOf(1)
    /\ \E c \in Tabs : pc[c] = "idle" /\ res[c].count = "true"

\* C7: once the insert of applyToJob succeeded the call returns the
\* inserted row, whether the count resync succeeds or fails in its query
\* or in its write, and the row stays in job_applications.
C7_ResyncNotFatal ==
    [][\A c \in Tabs :
          AfterInsert(c) /\ pc'[c] # pc[c] =>
              /\ apps' = apps
              /\ \E r \in apps' : r.id = loc[c].row
              /\ pc'[c] = "cnt_write" \/ EndsApply(c)
              /\ EndsApply(c) =>
                    /\ res'[c].kind = "ok"
                    /\ res'[c].row = loc[c].row]_vars

\* applyToJob returned its row although the resync reported failure
C7_Witness ==
    \E c \in Tabs :
        /\ pc[c] = "idle" /\ res[c].op = "applyToJob" /\ res[c].kind = "ok"
        /\ res[c].count = "false"
        /\ \E r \in apps : r.id = res[c].row /\ r.user_id = session[c]

(***************************************************************************)
(* Two tabs of one user applying to the same job                           *)
(***************************************************************************)
\* the insert request of tab c got an answer of the store in this step:
\* success or an error code of the database, not a failed request
InsertAnswered(c) ==
    /\ pc[c] = "ap_insert" /\ pc'[c] # pc[c]
    /\ ~(res'[c].kind = "Failed" /\ res'[c].code = "other")

\* the first answered insert of (U,J) succeeds, every other one is refused
\* with 23505 and ends the call with the 'already applied' error
RaceOnInsert ==
    \A c \in Tabs :
        InsertAnswered(c) =>
            IF RowsOf(loc[c].user, loc[c].job) = {}
            THEN /\ pc'[c] = "cnt_read"
                 /\ Cardinality({r \in apps' : /\ r.user_id = loc[c].user
                                                /\ r.job_id = loc[c].job}) = 1
            ELSE /\ apps' = apps
                 /\ res'[c].kind = "AlreadyApplied" /\ res'[c].code = "23505"
                 /\ pc'[c] = IF loc[c].via = "ui" THEN "ha_catch" ELSE "idle"

\* the catch block of handleApply turns 'already applied' into hasApplied
CatchSetsHasApplied ==
    \A c \in Tabs :
        pc[c] = "ha_catch" /\ pc'[c] # pc[c] /\ res[c].kind = "AlreadyApplied" =>
            page'[c].hasApplied /\ pc'[c] = "ha_refresh"

C8_NoAppliedNoInactive ==
    [][\A c \in Tabs :
          /\ pc[c] \in {"rec_apps", "sync_run"} /\ pc'[c] = "idle"
          /\ res'[c].kind = "ok"
          => \A job \in res'[c].list :
                /\ job.status = "active"
                /\ RowsOf(loc[c].user, job.id) = {}]_vars

(***************************************************************************)
(* Properties of uploadResume                                              *)
(***************************************************************************)
\* the step ends a call of uploadResume by tab c with success
UploadReturns(c) == pc[c] = "up_upsert" /\ pc'[c] = "idle" /\ res'[c].kind = "ok"

\* C9: when a tab whose previous uploadResume returned calls uploadResume
\* again and the call returns, exactly one object is in the user's folder
\* of the bucket and user_profiles.resume_url points at the second upload,
\* also when the list or remove step of the purge reported an error.
C9_OneBlobAfterSecondUpload ==
    [][\A c \in Tabs :
          /\ UploadReturns(c)
          /\ res[c].op = "uploadResume" /\ res[c].kind = "ok"
          /\ \A d \in Tabs \ {c} : pc[d] = "idle" /\ res[d] = NoRes
          => /\ {b \in blobs' : b.user = loc[c].user} = {loc[c].path}
             /\ PathOf(profiles'[loc[c].user].resume_url) = loc[c].path]_vars

PurgeSteps == {"del_list", "del_remove", "del_clear"}

\* C10: an error answer or an exception in the list, remove or clear step
\* of deleteAllUserResumes never ends uploadResume: the call goes on to the
\* storage upload, it fails only in the upload or in the profile upsert,
\* and when it returns resume_url is the URL of the new upload.
C10_PurgeFailureNotFatal ==
    [][\A c \in Tabs :
          /\ pc[c] \in PurgeSteps /\ pc'[c] # pc[c] =>
                /\ pc'[c] \in PurgeSteps \cup {"up_upload"}
                /\ res'[c] = res[c]
          /\ pc[c] \in PurgeSteps \cup {"up_upload", "up_url", "up_upsert"}
             /\ pc'[c] = "idle" /\ res'[c].kind # "ok" =>
                pc[c] \in {"up_upload", "up_upsert"}
          /\ UploadReturns(c) =>
                /\ profiles'[loc[c].user].present
                /\ PathOf(profiles'[loc[c].user].resume_url) = loc[c].path]_vars

\* an upload returned with success although its purge left the old object
C10_Witness ==
    \E c \in Tabs :
        /\ pc[c] = "idle" /\ res[c].op = "uploadResume" /\ res[c].kind = "ok"
        /\ \A d \in Tabs \ {c} : res[d] = NoRes /\ pc[d] = "idle"
        /\ Cardinality(FolderOf(session[c])) = 2
        /\ PathOf(profiles[session[c]].resume_url) \in FolderOf(session[c])

(***************************************************************************)
(* Properties of createNewJobWithPdf and of the deletion of jobs           *)
(***************************************************************************)
\* the step ends a call of createNewJobWithPdf by tab c with its result
CreateReturns(c) ==
    /\ pc[c] \in {"cj_status", "cj_catch", "cj_nodoc"}
    /\ pc'[c] # pc[c]
    /\ res'[c].op = "createNewJobWithPdf" /\ res'[c].kind = "ok"

\* C11: whenever createNewJobWithPdf returns after it inserted the jobs
\* row, with a document that uploaded, with one whose upload failed or with
\* none, the status of the job in the store is 'inactive', also when the
\* write of the status was answered with an error.
C11_EndsInactive ==
    [][\A c \in Tabs :
          CreateReturns(c) => jobs'[loc[c].job].status = "inactive"]_vars

\* no job_pdfs or job_applications row references a job that has no row
NoOrphan ==
    \A j \in JobIds : jobs[j].status = "absent" => ~Referenced(j)

\* C12: once deleteJobWithPdfs(J) has returned without throwing, no
\* job_pdfs row, no job_applications row and no jobs row of J is in the
\* store, and getJobById(J) fails with the not-found error.
C12_DeletedJobIsGone ==
    \A c \in Tabs :
        res[c].op = "deleteJobWithPdfs" /\ res[c].kind = "ok" =>
            /\ PdfsOf(res[c].row) = {}
            /\ AppsOf(res[c].row) = {}
            /\ jobs[res[c].row].status = "absent"
            /\ getJobById(res[c].row, FALSE) = "NotFound"
            /\ getJobById(res[c].row, TRUE) # "job"

\* deleteJobWithPdfs returned for a job that had a document and an
\* application
C12_Witness ==
    \E c \in Tabs :
        /\ pc[c] = "idle"
        /\ res[c].op = "deleteJobWithPdfs" /\ res[c].kind = "ok" /\ res[c].row = 1
        /\ nextPdf > 1 /\ nextId > 1
        /\ jobs[1].status = "absent"

\* the jobs row of j goes only when nothing references j any more
DeletedLast ==
    \A c \in Tabs :
        /\ pc[c] = "dj_job" /\ loc[c].ret = "deleteJobWithPdfs"
        /\ jobs[loc[c].job].status # "absent"
        /\ jobs'[loc[c].job].status = "absent"
        => ~Referenced(loc[c].job)

\* C13: in every run of deleteJobWithPdfs(J), also next to a concurrent
\* applyToJob(J), the jobs row of J is deleted only after all job_pdfs and
\* job_applications rows of J are gone, so that no state has a row that
\* references a job without jobs row.
C13_JobRowDeletedLast == []NoOrphan /\ [][DeletedLast]_vars

(***************************************************************************)
(* Properties of waitForScoreProcessing                                    *)
(***************************************************************************)
\* the application of the poll of tab c got its score while the poll waited
ScoredInTime(c) ==
    \E r \in RowsOf(loc[c].user, loc[c].job) :
        /\ scores[r.id].total_score > 0
        /\ loc[c].start <= scores[r.id].at
        /\ scores[r.id].at - loc[c].start < loc[c].wait

\* C14: when the row of (userId, jobId) gets a total_score above 0 before
\* maxWaitTime has elapsed since the start of the poll, and no read
\* failed, waitForScoreProcessing returns the application and not null
\* (poll every 5 s, maxWaitTime 3 s, score written after 2.5 s).
C14_ScoreInTimeIsReturned ==
    [][\A c \in Tabs :
          /\ pc[c] = "wp_sleep" /\ pc'[c] = "idle"
          /\ res'[c].kind = "null"
          /\ loc[c].err = "none"
          => ~ScoredInTime(c)]_vars

\* a step of tab c that issues a read of the application
IssuesRead(c) ==
    /\ pc'[c] = "wp_read" /\ pc[c] # "wp_read"
    /\ loc'[c].ret = "waitForScoreProcessing"

\* reads start before the deadline and a poll interval apart
ReadsOnTime ==
    \A c \in Tabs :
        IssuesRead(c) =>
            /\ clock' - loc'[c].start < loc'[c].wait
            /\ loc'[c].reads = (IF pc[c] = "idle" THEN 0 ELSE loc[c].reads) + 1
            /\ pc[c] = "wp_sleep" => clock' - loc[c].last >= pollInterval

\* the poll ends with the scored application or with null, never by
\* throwing
PollReturns ==
    \A c \in Tabs :
        res'[c] # res[c] /\ res'[c].op = "waitForScoreProcessing" =>
            /\ res'[c].kind \in {"ok", "null"}
            /\ res'[c].kind = "ok" =>
                  /\ res'[c].row \in {r.id : r \in RowsOf(loc[c].user, loc[c].job)}
                  /\ scores[res'[c].row].total_score > 0
            /\ res'[c].kind = "null" /\ pc[c] = "wp_sleep" =>
                  \/ loc[c].row = 0
                  \/ scores[loc[c].row].total_score = 0
                  \/ scores[loc[c].row].at >= loc[c].last

\* at most ceil(maxWaitTime / pollInterval) reads
ReadsBounded ==
    \A c \in Tabs :
        /\ pc[c] \in {"wp_read", "wp_sleep"} =>
              (loc[c].reads - 1) * pollInterval < loc[c].wait
        /\ res[c].op = "waitForScoreProcessing" =>
              \E w \in WaitTimes : /\ (res[c].count - 1) * pollInterval < w
                                   /\ res[c].count >= 0

\* C15: waitForScoreProcessing always terminates and never throws: it
\* returns the application or null (null when no read saw a positive
\* score, also when every read failed), starts no read once maxWaitTime
\* has elapsed, keeps consecutive reads at least the poll interval apart
\* and so makes at most ceil(maxWaitTime / pollInterval) reads.
C15_PollTerminates ==
    /\ []ReadsBounded
    /\ [][ReadsOnTime /\ PollReturns]_vars
    /\ \A c \in Tabs : (pc[c] \in {"wp_read", "wp_sleep"}) ~> (pc[c] = "idle")

\* a poll ended with null after two reads, one of which failed
C15_Witness ==
    \E c \in Tabs :
        /\ pc[c] = "idle"
        /\ res[c].op = "waitForScoreProcessing" /\ res[c].kind = "null"
        /\ res[c].count = 2
        /\ clock >= 2 * pollInterval

(***************************************************************************)
(* Properties of the admin operations                                      *)
(***************************************************************************)
AdminOps == {"createNewJob", "createNewJobWithPdf", "updateJobStatus",
             "deleteJob", "deleteJobWithPdfs", "uploadJobPdf", "deleteJobPdf"}

\* the caller of tab c is not signed in or has not the role 'admin'
NotAdmin(c) == session[c] = NoUser \/ ~IsAdminAnswer(session[c])

\* the step is a step of a mutating admin operation called by tab c
AdminOpStep(c) ==
    /\ pc'[c] # pc[c] \/ res'[c] # res[c] \/ loc'[c] # loc[c]
    /\ \/ loc[c].ret \in AdminOps
       \/ loc'[c].ret \in AdminOps
       \/ res'[c] # res[c] /\ res'[c].op \in AdminOps

\* C16: every mutating admin operation (createNewJob, createNewJobWithPdf,
\* updateJobStatus, deleteJob, deleteJobWithPdfs, uploadJobPdf,
\* deleteJobPdf) checks the admin role of the caller before its first
\* write, so a call of a caller who is not signed in or not an admin
\* changes no jobs, job_pdfs or job_applications row.
C16_NonAdminChangesNothing ==
    [][\A c \in Tabs :
          NotAdmin(c) /\ AdminOpStep(c) =>
              jobs' = jobs /\ pdfs' = pdfs /\ apps' = apps]_vars

\* C17: while an admin's updateJobStatus(J, 'inactive') interleaves with a
\* student's handleApply for J, (a) the status write changes no
\* job_applications row and (b) handleApply inserts no row for J once the
\* status of J in the store is 'inactive', also when the page loaded J
\* while it was active.
C17_NoApplicationAfterDeactivation ==
    [][\A c \in Tabs :
          /\ res'[c] # res[c] /\ res'[c].op = "updateJobStatus" => apps' = apps
          /\ pc[c] = "ap_insert" /\ loc[c].via = "ui" /\ apps' # apps =>
                jobs[loc[c].job].status # "inactive"]_vars

(***************************************************************************)
(* Properties of getApplicationDetails and getApplicationStatus            *)
(***************************************************************************)
\* C18: getApplicationDetails(U,J) and getApplicationStatus(U,J) return
\* null, without throwing, when no row of (U,J) exists and the row when
\* exactly one exists; null is returned only when there is no row.
C18_NullOnlyWithoutRow ==
    [][\A c \in Tabs :
          /\ pc[c] = "pg_details" /\ pc'[c] # pc[c] =>
                (page'[c].hasApplied <=>
                    Cardinality(RowsOf(session[c], page[c].job)) = 1)
          /\ pc[c] = "wp_read" /\ pc'[c] = "wp_sleep" =>
                (loc'[c].row = 0 <=> RowsOf(loc[c].user, loc[c].job) = {})]_vars

(***************************************************************************)
(* Properties of the validation of uploaded files                          *)
(***************************************************************************)
Rejections == {"InvalidType", "TooLarge"}

\* C19: a file of a wrong MIME type or above the size cap (5 MB for a
\* resume, 10 MB for a job document) is rejected before any request to the
\* store or the storage is made: the rejection is the first step of the
\* call, and createNewJobWithPdf with such a file inserts no jobs row and
\* makes no admin-role rpc.
C19_RejectedBeforeAnyRequest ==
    [][\A c \in Tabs :
          /\ res'[c] # res[c] /\ res'[c].kind \in Rejections
             /\ res'[c].op \in {"uploadResume", "uploadJobPdf"}
             => pc[c] = "idle"
          /\ pc[c] = "idle" /\ loc'[c].ret = "createNewJobWithPdf"
             /\ InvalidJobFile(loc'[c].file)
             => jobs' = jobs
          /\ pc[c] = "ju_admin" /\ pc'[c] # pc[c]
             => ~InvalidJobFile(loc[c].file)]_vars

(***************************************************************************)
(* Properties of the status of a job                                       *)
(***************************************************************************)
\* the changes of the status of job j that the lifecycle allows: created
\* as 'processing' under a fresh id, 'processing' to 'inactive', 'inactive'
\* to 'active' and back, and deleted from any status
LifecycleStep(j) ==
    LET a == jobs[j].status
        b == jobs'[j].status
    IN a # b =>
          \/ a = "absent" /\ b = "processing" /\ j = nextJob
          \/ a = "processing" /\ b = "inactive"
          \/ a = "inactive" /\ b = "active"
          \/ a = "active" /\ b = "inactive"
          \/ a # "absent" /\ b = "absent"

\* C20: the status values that createNewJobWithPdf, handleUploadPdf,
\* handleStatusChange and deleteJobWithPdfs write for a job follow
\* processing -> inactive <-> active: never from 'processing' to 'active',
\* never back to 'processing', and a deleted job does not come back.
C20_StatusLifecycle ==
    /\ [](\A j \in JobIds : jobs[j].status \in JobStatus \cup {"absent"})
    /\ [](\A j \in JobIds : j >= nextJob => jobs[j].status = "absent")
    /\ [][\A j \in JobIds : LifecycleStep(j)]_vars

\* a job went processing, inactive, active and inactive again: a dashboard
\* still lists it as active
C20_Witness ==
    \E c \in Tabs, j \in JobIds :
        /\ dash[c].open /\ dash[c].list[j] = "active"
        /\ jobs[j].status = "inactive"
        /\ j < nextJob

(***************************************************************************)
(* Properties of updateJobStatus                                           *)
(***************************************************************************)
\* the step is the status write of an updateJobStatus call of tab c
StatusWrite(c) ==
    /\ pc[c] = "idle" /\ pc'[c] = "cnt_read"
    /\ loc'[c].ret = "updateJobStatus"

\* the write sets status to the target, also when it is the target already,
\* refreshes updated_at and leaves every other field and every other job
WritesStatusAndStamp ==
    \A c \in Tabs :
        StatusWrite(c) =>
            /\ \A k \in JobIds \ {loc'[c].job} : jobs'[k] = jobs[k]
            /\ jobs[loc'[c].job].status # "absent" =>
                  /\ jobs'[loc'[c].job].status = loc'[c].status
                  /\ jobs'[loc'[c].job].updated_at = clock
                  /\ jobs'[loc'[c].job].title = jobs[loc'[c].job].title
                  /\ jobs'[loc'[c].job].applications_count =
                        jobs[loc'[c].job].applications_count
            /\ apps' = apps /\ profiles' = profiles

\* the count resync at the end of the call changes applications_count and
\* updated_at only
ResyncKeepsStatus ==
    \A c \in Tabs :
        /\ pc[c] \in {"cnt_read", "cnt_write"} /\ loc[c].ret = "updateJobStatus"
        /\ pc'[c] # pc[c]
        =>  /\ \A k \in JobIds : /\ jobs'[k].status = jobs[k].status
                                 /\ jobs'[k].title = jobs[k].title
            /\ \A k \in JobIds \ {loc[c].job} : jobs'[k] = jobs[k]
            /\ apps' = apps

\* C21: updateJobStatus(J, s) is idempotent on the status: a call made when
\* the status is s already leaves it s, it still writes and refreshes
\* updated_at, and the call changes no field of J but status, updated_at
\* and applications_count.
C21_StatusIdempotent == [][WritesStatusAndStamp /\ ResyncKeepsStatus]_vars

\* a call has written 'inactive' after the other tab's call returned and
\* time passed: the job is inactive with a fresh updated_at
C21_Witness ==
    \E c, d \in Tabs :
        /\ c # d
        /\ pc[d] = "idle" /\ res[d].op = "updateJobStatus" /\ res[d].kind = "ok"
        /\ pc[c] = "cnt_read" /\ loc[c].ret = "updateJobStatus"
        /\ loc[c].status = "inactive" /\ jobs[1].status = "inactive"
        /\ jobs[1].updated_at = clock /\ clock >= TickMs

(***************************************************************************)
(* Properties of the scoring workflow                                      *)
(***************************************************************************)
\* the step is a step of handleProcessResume, waitForScoreProcessing or
\* refreshApplicationDetails in tab c
ScoringWorkflowStep(c) ==
    \/ /\ pc'[c] # pc[c]
       /\ \/ pc[c] \in {"pr_test", "pr_process", "wp_read", "wp_sleep", "ha_refresh"}
          \/ pc'[c] \in {"pr_test", "wp_read"}
    \/ res'[c] # res[c] /\ res'[c].op = "waitForScoreProcessing"

\* C22: once applyToJob has inserted a job_applications row, no client
\* operation of the scoring workflow deletes or rewrites it: every step and
\* every failure of handleProcessResume (server not reached, timeout, answer
\* not 2xx, status not 'success'), of waitForScoreProcessing and of
\* refreshApplicationDetails leaves the row, its score and its acceptance
\* as they are, so the row stays with total_score 0 while the scoring
\* service has not written.
C22_ScoringKeepsApplication ==
    [][/\ \A c \in Tabs :
             ScoringWorkflowStep(c) => apps' = apps /\ scores' = scores
       /\ apps \subseteq apps'
       /\ scores' # scores => pc' = pc /\ page' = page]_vars

\* the processing of the resume timed out in one tab and the other tab's
\* poll gave up: the application is still there, unscored and pending
C22_Witness ==
    \E c, d \in Tabs :
        /\ res[c].op = "handleProcessResume" /\ res[c].kind = "timeout"
        /\ res[d].op = "waitForScoreProcessing" /\ res[d].kind = "null"
        /\ res[d].count > 0
        /\ page[c].hasApplied /\ ~page[c].applying
        /\ \E r \in RowsOf(session[c], page[c].job) :
              scores[r.id] = NoScores[r.id]

(***************************************************************************)
(* Properties of the controls of JobDetailsPage                            *)
(***************************************************************************)
\* a handleApply or handleProcessResume of the page of tab c is between
\* its setApplying(true) and its finally block
HandlerRunning(c) ==
    pc[c] \in {"ha_call", "ap_resume", "ap_check", "ap_insert", "cnt_read",
               "cnt_write", "ha_ok", "ha_catch", "ha_refresh",
               "pr_test", "pr_process"}

C24_AppliedStaysApplied ==
    [][\A c \in Tabs :
          /\ pc[c] = "ha_refresh" /\ pc'[c] = "idle"
          /\ res[c].op = "applyToJob" /\ res[c].kind = "ok"
          => page'[c].hasApplied]_vars

(***************************************************************************)
(* Properties of concurrent count resyncs                                  *)
(***************************************************************************)
\* every tab has finished an applyToJob without error, count resync included
AllApplied ==
    \A c \in Tabs :
        /\ pc[c] = "idle"
        /\ res[c].op = "applyToJob" /\ res[c].kind = "ok" /\ res[c].count = "true"

\* C25: for every interleaving of concurrent applyToJob calls of different
\* users on one job, each followed by its updateJobApplicationCount, the
\* stored applications_count of the job equals the number of its
\* job_applications rows once all calls have finished without error.
C25_QuiescentCount ==
    AllApplied /\ session["t1"] # session["t2"] =>
        \A j \in JobIds :
            jobs[j].status # "absent" => jobs[j].applications_count = CountOf(j)

(***************************************************************************)
(* Properties of uploadResume                                              *)
(***************************************************************************)
\* C26: uploadResume leaves the role of the caller's profile as it is: a
\* profile with role 'admin' still has role 'admin' after a successful
\* uploadResume (the upsert changes resume_url and updated_at only).
C26_UploadKeepsRole ==
    [][\A c \in Tabs :
          /\ pc[c] = "up_upsert" /\ pc'[c] = "idle" /\ res'[c].kind = "ok"
          /\ profiles[loc[c].user].present
          => profiles'[loc[c].user].role = profiles[loc[c].user].role]_vars

\* C27: an uploadResume that throws after its validation (storage upload
\* error or profile upsert error) leaves the resume the user had before the
\* call usable: its object is still in the bucket and resume_url still
\* points at it, so applyToJob does not meet a missing resume.
C27_FailedUploadKeepsResume ==
    [][\A c \in Tabs :
          /\ pc[c] \in {"up_upload", "up_upsert"} /\ pc'[c] = "idle"
          /\ res'[c].op = "uploadResume" /\ res'[c].kind = "Failed"
          /\ loc[c].prev # NoUrl
          => /\ PathOf(loc[c].prev) \in blobs'
             /\ profiles'[loc[c].user].resume_url = loc[c].prev]_vars

(***************************************************************************)
(* Properties of syncAllJobApplicationCounts                               *)
(***************************************************************************)
\* C28: syncAllJobApplicationCounts reports success only if every
\* updateJobApplicationCount it started succeeded: when one of them failed
\* for some job, the sync does not return true.
C28_SyncReportsFailure ==
    [][\A c \in Tabs :
          /\ pc[c] = "sync_run" /\ pc'[c] # "sync_run"
          /\ syncAllJobApplicationCounts_returns(c)
          => \A j \in JobIds : loc[c].sync[j] # "failed"]_vars

(***************************************************************************)
(* Properties of the results of createNewJobWithPdf and deleteJobWithPdfs  *)
(***************************************************************************)
\* C29: the job object createNewJobWithPdf returns carries the status that
\* the row of the job has in the store when the call returns, with a
\* document that uploaded, with one whose upload failed and with none, and
\* also when the write of the status was answered with an error.
C29_ReturnedStatusIsStored ==
    [][\A c \in Tabs :
          CreateReturns(c) => res'[c].status = jobs'[loc[c].job].status]_vars

\* a deleteJobPdf of the loop of deleteJobWithPdfs in tab c throws
DocumentDeleteThrows(c) ==
    /\ loc[c].ret = "deleteJobWithPdfs"
    /\ pc[c] \in {"dp_throw", "dp_admin", "dp_info", "dp_blob", "dp_row"}
    /\ pc'[c] = "idle"

\* deleteJobWithPdfs throws and has deleted no application and no job
ThrowsBeforeAnyDelete(c) ==
    /\ res'[c].op = "deleteJobWithPdfs" /\ res'[c].kind # "ok"
    /\ apps' = apps /\ jobs' = jobs

\* Step 3 of a deleteJobWithPdfs whose delete of the applications failed
JobStepAfterFailedApps(c) ==
    /\ loc[c].ret = "deleteJobWithPdfs"
    /\ pc[c] = "dj_job" /\ pc'[c] # pc[c]
    /\ loc[c].err = "AppsDeleteFailed"

\* C30: deleteJobWithPdfs(J) is all-or-nothing for the job row and its
\* applications: when the deletion of one of J's documents fails, the call
\* throws and neither the applications nor the jobs row of J are deleted;
\* and when the deletion of J's applications is answered with an error, the
\* jobs row of J is not deleted.
C30_DeleteAllOrNothing ==
    [][\A c \in Tabs :
          /\ DocumentDeleteThrows(c) => ThrowsBeforeAnyDelete(c)
          /\ JobStepAfterFailedApps(c) =>
                jobs'[loc[c].job].status = jobs[loc[c].job].status]_vars

====
